---- MODULE Spec2Model ----
(***************************************************************************)
(* A model of the retained-mode rendering core of Shumway's GFX layer:     *)
(* the Frame scene-graph node (src/src/gfx/frame.ts) with its lazily       *)
(* evaluated concatenated matrix and its iterative traversal, and the      *)
(* WebGL tile cache of src/unnamed/part_000.                               *)
(***************************************************************************)
EXTENDS Integers, Sequences, FiniteSets, TLC

(***************************************************************************)
(* Bounds of the model.                                                    *)
(***************************************************************************)
\* Largest number of frames in a tree of the transform specification.
MaxNodes == 3
\* Largest number of setter calls and queries in one run of the transform
\* specification.
MaxOps == 4
\* Largest number of calls in one run of the frame specification.
MaxFrameOps == 3
\* Largest number of capabilities that frames lack at a time.
MaxRemoved == 1
\* Largest number of calls of the brush in one run of the brush specification.
MaxCalls == 10
\* Largest number of those calls that are anything but a reset or a drawImage
\* of a live texture the batch has not bound, with a colour transform the
\* batch can take.
MaxVaried == 2
\* Largest number of fetchTiles calls in one run of the tile cache
\* specification.
MaxFetches == 2
\* Largest number of frames in a tree of the traversal specification.
MaxVisitNodes == 4
\* Largest number of children that carry a clip count >= 0 in one tree.
MaxClips == 1

\* The null reference: no frame has this id.
Null == -1

(***************************************************************************)
(* Geometry.Matrix: the 2D affine matrix [a c tx; b d ty; 0 0 1].          *)
(***************************************************************************)
Matrix(a, b, c, d, tx, ty) == [a |-> a, b |-> b, c |-> c, d |-> d, tx |-> tx, ty |-> ty]

createIdentity == Matrix(1, 0, 0, 1, 0, 0)

\* this.preMultiply(other): other is applied first, then this.
preMultiply(this, other) ==
  Matrix(other.a * this.a + other.b * this.c,
         other.a * this.b + other.b * this.d,
         other.c * this.a + other.d * this.c,
         other.c * this.b + other.d * this.d,
         other.tx * this.a + other.ty * this.c + this.tx,
         other.tx * this.b + other.ty * this.d + this.ty)

\* The matrices handed to the matrix setter: a quarter turn and a scaling
\* with a translation, which do not commute.
Rotate90 == Matrix(0, 1, -1, 0, 0, 0)
Scale2 == Matrix(2, 0, 0, 2, 1, 0)
MatrixValues == {Rotate90, Scale2}
\* The values handed to the x and y setters.
XValues == {3}
YValues == {5}

(***************************************************************************)
(* ColorMatrix, reduced to one colour channel: the channel is multiplied   *)
(* by mul and add is added to it.                                          *)
(***************************************************************************)
ColorMatrix(mul, add) == [mul |-> mul, add |-> add]

ColorMatrix_createIdentity == ColorMatrix(1, 0)

\* this.multiply(other): other is applied first, then this.
ColorMatrix_multiply(this, other) ==
  ColorMatrix(this.mul * other.mul, this.mul * other.add + this.add)

\* The colour matrices handed to the colorMatrix setter.
ColorMatrixValues == {ColorMatrix(2, 1)}

\* BlendMode.Normal, the blend mode of a new frame.
BlendModeNormal == 1
\* The blend modes handed to the blendMode setter.
BlendModeValues == {3}
\* value | 0: the value as a signed 32-bit integer, which every integer of
\* the model is.
toInt32(value) == value
\* The filter lists handed to the filters setter.
FiltersValues == {<<"blur">>}
\* The clip counts handed to the clip setter.
ClipCounts == {1}

(***************************************************************************)
(* FrameFlags and FrameCapabilityFlags, as sets of flag names.             *)
(***************************************************************************)
ConstructorFlags ==
  {"Visible", "InvalidPaint", "InvalidBounds", "InvalidConcatenatedMatrix",
   "InvalidInvertedConcatenatedMatrix", "InvalidConcatenatedColorMatrix"}

AllowAllWrite ==
  {"AllowMatrixWrite", "AllowColorMatrixWrite", "AllowBlendModeWrite",
   "AllowFiltersWrite", "AllowMaskWrite", "AllowChildrenWrite", "AllowClipWrite"}

VARIABLES
  parent,               \* Frame._parent of every frame (Null at the root)
  isContainer,          \* whether the frame is a FrameContainer
  capability,           \* Frame._capability
  matrix,               \* Frame._matrix
  flags,                \* Frame._flags
  concatenatedMatrix,   \* Frame._concatenatedMatrix
  clip,                 \* Frame._clip
  blendMode,            \* Frame._blendMode
  filters,              \* Frame._filters
  colorMatrix,          \* Frame._colorMatrix
  concatenatedColorMatrix, \* Frame._concatenatedColorMatrix
  invertedConcatenatedMatrix, \* Frame._invertedConcatenatedMatrix
  mask,                 \* Frame._mask
  ret,                  \* what the last call returned to its caller
  ops,                  \* the number of calls made so far
  call,                 \* the arguments of the traversal in progress
  pc,                   \* "idle", "visiting" (inside visit's loop) or "done"
  frameStack,           \* visit: frameStack
  transformStack,       \* visit: transformStack
  flagsStack,           \* visit: flagsStack
  frames,               \* queryFramesByPoint: the frames collected so far
  visited,              \* the visitor's invocations so far, in order
  source,               \* RenderableTileCache.source: its bounds and flags
  cacheLevels,          \* RenderableTileCache.cacheLevels, by level index
  tileRegion,           \* Tile.cachedTextureRegion of the tiles that were cached
  regionTexture,        \* WebGLTextureRegion.texture: whether it is still there
  atlasSize,            \* the regions an empty texture atlas can allocate
  capacity,             \* the regions the texture atlas can still allocate
  log,                  \* the fetchTiles calls and evictions so far
  atlas,                \* a WebGLTextureAtlas: _w, _h, _compact, _regionAllocator
  atlasCalls,           \* the calls of the atlas so far, in order
  textures,             \* WebGLCombinedBrush._textures
  colorTransform,       \* WebGLCombinedBrush._colorTransform
  geometry,             \* the quads written to the brush's geometry since its reset
  draws,                \* the flushes of the brush so far, in order
  calls,                \* the calls of the brush so far, in order
  drawing               \* whether a render pass is between its reset and its last flush

\* The local paint properties of the frames and the caches the transform
\* specification does not read.
paintVars ==
  <<blendMode, filters, colorMatrix, concatenatedColorMatrix,
    invertedConcatenatedMatrix, mask>>

frameVars ==
  <<parent, isContainer, capability, matrix, flags, concatenatedMatrix, clip,
    paintVars, ret, ops>>

visitVars == <<call, pc, frameStack, transformStack, flagsStack, frames, visited>>

atlasVars == <<atlas, atlasCalls>>

tileVars ==
  <<source, cacheLevels, tileRegion, regionTexture, atlasSize, capacity, log, atlasVars>>

brushVars == <<textures, colorTransform, geometry, draws, calls, drawing>>

vars == <<frameVars, visitVars, tileVars, brushVars>>

Frames == DOMAIN parent

NoRet == [op |-> "none"]

(***************************************************************************)
(* Trees.  Frames are numbered in the order in which a back-to-front       *)
(* pre-order walk meets them, so every ordered tree shape occurs once; the *)
(* children of a container are its FrameContainer._children in index       *)
(* order.                                                                  *)
(***************************************************************************)
RECURSIVE AncestorsIn(_, _)
\* f and its ancestors in the parent function p.
AncestorsIn(p, f) == IF f = Null THEN {} ELSE {f} \cup AncestorsIn(p, p[f])

RECURSIVE Trees(_)
\* The parent functions of the ordered trees with n frames, 0..n-1.
Trees(n) ==
  IF n = 1 THEN {[f \in {0} |-> Null]}
  ELSE {[f \in 0..(n - 1) |-> IF f = n - 1 THEN q ELSE p[f]] :
          <<p, q>> \in {<<p, q>> \in Trees(n - 1) \X (0..(n - 2)) :
                          q \in AncestorsIn(p, n - 2)}}

\* FrameContainer._children of f, in child index order.
RECURSIVE SortedSeq(_)
SortedSeq(S) ==
  IF S = {} THEN <<>>
  ELSE LET m == CHOOSE x \in S : \A y \in S : x <= y
       IN <<m>> \o SortedSeq(S \ {m})

children(f) == SortedSeq({g \in Frames : parent[g] = f})

RECURSIVE Descendants(_)
\* f and every frame below it.
Descendants(f) ==
  {f} \cup UNION {Descendants(g) : g \in {h \in Frames : parent[h] = f}}

StrictAncestors(f) == AncestorsIn(parent, parent[f])

(***************************************************************************)
(* Frame: flags.                                                           *)
(***************************************************************************)
hasFlags(fl, f, fs) == fs \subseteq fl[f]

\* A mutant of setFlags: the flags are assigned, not or-ed in.
setFlagsAssigned(fl, f, fs) == [fl EXCEPT ![f] = fs]

setFlags(fl, f, fs) == [fl EXCEPT ![f] = @ \cup fs]

removeFlags(fl, f, fs) == [fl EXCEPT ![f] = @ \ fs]

RECURSIVE findClosestAncestor(_, _, _, _)
\* The closest of f and its ancestors on which hasFlags(fs) = on, or Null.
findClosestAncestor(fl, f, fs, on) ==
  IF f = Null THEN Null
  ELSE IF hasFlags(fl, f, fs) = on THEN f
  ELSE findClosestAncestor(fl, parent[f], fs, on)

RECURSIVE getAncestors(_, _)
\* The path from node up to, and excluding, last: node first.
getAncestors(node, last) ==
  IF node = Null \/ node = last THEN <<>>
  ELSE <<node>> \o getAncestors(parent[node], last)

\* A mutant of propagateFlagsUp: the flags reach the frame, not its ancestors.
propagateFlagsUpOnce(fl, f, fs) == setFlags(fl, f, fs)

RECURSIVE propagateFlagsUp(_, _, _)
\* Sets fs on f and upward; stops at a frame that has them all.
propagateFlagsUp(fl, f, fs) ==
  IF hasFlags(fl, f, fs) THEN fl
  ELSE LET fl2 == setFlags(fl, f, fs)
       IN IF parent[f] # Null THEN propagateFlagsUp(fl2, parent[f], fs) ELSE fl2

\* Frame._propagateFlagsDown: a frame that is no container flags itself.
Frame_propagateFlagsDown(fl, f, fs) == setFlags(fl, f, fs)

\* FrameContainer._propagateFlagsDown: the container and every descendant.
FrameContainer_propagateFlagsDown(fl, f, fs) ==
  [g \in DOMAIN fl |-> IF g \in Descendants(f) THEN fl[g] \cup fs ELSE fl[g]]

propagateFlagsDown(fl, f, fs) ==
  IF isContainer[f] THEN FrameContainer_propagateFlagsDown(fl, f, fs)
  ELSE Frame_propagateFlagsDown(fl, f, fs)

invalidateBounds(fl, f) == propagateFlagsUp(fl, f, {"InvalidBounds"})

invalidateParentPaint(fl, f) ==
  IF parent[f] # Null THEN propagateFlagsUp(fl, parent[f], {"InvalidPaint"}) ELSE fl

\* A mutant of invalidatePosition: the flags reach the frame, not its subtree.
invalidatePositionSelfOnly(fl, f) ==
  LET down == Frame_propagateFlagsDown(fl, f,
                {"InvalidConcatenatedMatrix", "InvalidInvertedConcatenatedMatrix"})
      up == IF parent[f] # Null THEN invalidateBounds(down, parent[f]) ELSE down
  IN invalidateParentPaint(up, f)

invalidatePosition(fl, f) ==
  LET down == propagateFlagsDown(fl, f,
                {"InvalidConcatenatedMatrix", "InvalidInvertedConcatenatedMatrix"})
      up == IF parent[f] # Null THEN invalidateBounds(down, parent[f]) ELSE down
  IN invalidateParentPaint(up, f)

(***************************************************************************)
(* Frame.getConcatenatedMatrix.                                            *)
(***************************************************************************)
RECURSIVE concatenatePath(_, _, _, _, _)
\* The loop over path[i], i = path.length - 1 .. 0 (here i .. 1): m is
\* pre-multiplied by the frame's matrix and stored, and its flag cleared.
concatenatePath(path, i, m, fl, cm) ==
  IF i = 0 THEN [flags |-> fl, concatenatedMatrix |-> cm]
  ELSE LET ancestor == path[i]
           m2 == preMultiply(m, matrix[ancestor])
       IN concatenatePath(path, i - 1, m2,
                          removeFlags(fl, ancestor, {"InvalidConcatenatedMatrix"}),
                          [cm EXCEPT ![ancestor] = m2])

\* A mutant of getConcatenatedMatrix: only the queried frame is recomputed,
\* from its parent's cache, and only its flag is cleared.
getConcatenatedMatrixNodeOnly(fl, cm, f) ==
  IF hasFlags(fl, f, {"InvalidConcatenatedMatrix"})
  THEN LET m == IF parent[f] # Null THEN cm[parent[f]] ELSE createIdentity
           r == concatenatePath(<<f>>, 1, m, fl, cm)
       IN [flags |-> r.flags, concatenatedMatrix |-> r.concatenatedMatrix,
           value |-> r.concatenatedMatrix[f]]
  ELSE [flags |-> fl, concatenatedMatrix |-> cm, value |-> cm[f]]

\* The flags and caches after the call, and the matrix it returns.
getConcatenatedMatrix(fl, cm, f) ==
  IF hasFlags(fl, f, {"InvalidConcatenatedMatrix"})
  THEN LET ancestor == findClosestAncestor(fl, f, {"InvalidConcatenatedMatrix"}, FALSE)
           path == getAncestors(f, ancestor)
           m == IF ancestor # Null THEN cm[ancestor] ELSE createIdentity
           r == concatenatePath(path, Len(path), m, fl, cm)
       IN [flags |-> r.flags, concatenatedMatrix |-> r.concatenatedMatrix,
           value |-> r.concatenatedMatrix[f]]
  ELSE [flags |-> fl, concatenatedMatrix |-> cm, value |-> cm[f]]

(***************************************************************************)
(* The transform specification: a tree, the x, y and matrix setters and    *)
(* the concatenated-matrix query.                                          *)
(***************************************************************************)
\* _invertedConcatenatedMatrix = null: no matrix has been allocated.
NoInverse == <<>>

\* The paint properties the constructor gives the frames of tree p.
ConstructedPaint(p) ==
  /\ blendMode = [f \in DOMAIN p |-> BlendModeNormal]
  /\ filters = [f \in DOMAIN p |-> <<>>]
  /\ mask = [f \in DOMAIN p |-> Null]
  /\ invertedConcatenatedMatrix = [f \in DOMAIN p |-> NoInverse]
  /\ colorMatrix = [f \in DOMAIN p |-> ColorMatrix_createIdentity]
  /\ concatenatedColorMatrix = [f \in DOMAIN p |-> ColorMatrix_createIdentity]

\* The state after the frames of tree p have been constructed.
Constructed(p) ==
  /\ parent = p
  /\ isContainer = [f \in DOMAIN p |-> \E g \in DOMAIN p : p[g] = f]
  /\ capability = [f \in DOMAIN p |-> AllowAllWrite]
  /\ matrix = [f \in DOMAIN p |-> createIdentity]
  /\ flags = [f \in DOMAIN p |-> ConstructorFlags]
  /\ concatenatedMatrix = [f \in DOMAIN p |-> createIdentity]
  /\ clip = [f \in DOMAIN p |-> -1]
  /\ ConstructedPaint(p)
  /\ ret = NoRet
  /\ ops = 0

\* No traversal has been started.
NoVisit ==
  /\ call = [op |-> "none"]
  /\ pc = "idle"
  /\ frameStack = <<>>
  /\ transformStack = <<>>
  /\ flagsStack = <<>>
  /\ frames = <<>>
  /\ visited = <<>>

\* A source without a RenderableTileCache.
NoSource == [w |-> 0, h |-> 0, isDynamic |-> FALSE, isScalable |-> FALSE,
             isTileable |-> FALSE, isInvalid |-> FALSE]

\* The value of a colour transform that is undefined or null.
NoColorTransform == 0

\* new WebGLCombinedBrush(context, geometry), outside a render pass.
NewBrush ==
  /\ textures = <<>>
  /\ colorTransform = NoColorTransform
  /\ geometry = <<>>
  /\ draws = <<>>
  /\ calls = <<>>
  /\ drawing = FALSE

\* No texture atlas was constructed.
NoAtlas == <<>>

\* new RenderableTileCache(source), and an empty texture atlas with room
\* for size regions.
NewTileCache(src, size) ==
  /\ source = src
  /\ cacheLevels = <<>>
  /\ tileRegion = <<>>
  /\ regionTexture = <<>>
  /\ atlasSize = size
  /\ capacity = size
  /\ log = <<>>
  /\ atlas = NoAtlas
  /\ atlasCalls = <<>>

InitTransform ==
  /\ \E n \in 1..MaxNodes : \E p \in Trees(n) : Constructed(p)
  /\ NoVisit
  /\ NewTileCache(NoSource, 0)
  /\ NewBrush

\* One more call, while the run is within its bound.
Count == ops < MaxOps /\ ops' = ops + 1

\* A mutant of checkCapability: the capability is never looked at.
checkCapabilityUnchecked(f, c) == TRUE

\* Whether checkCapability returns: the frame has the capability.
checkCapability(f, c) == c \in capability[f]

\* unexpected(message), reached when checkCapability fails: the setter is
\* left before it has written anything, and its caller sees the fault.
unexpected(f, c) ==
  /\ ret' = [op |-> "unexpected", frame |-> f, capability |-> c]
  /\ UNCHANGED <<parent, isContainer, capability, matrix, flags, concatenatedMatrix,
                 clip, paintVars, visitVars, tileVars, brushVars>>

SetX(f, value) ==
  /\ Count
  /\ IF checkCapability(f, "AllowMatrixWrite")
     THEN /\ matrix' = [matrix EXCEPT ![f].tx = value]
          /\ flags' = invalidatePosition(flags, f)
          /\ ret' = NoRet
          /\ UNCHANGED <<parent, isContainer, capability, concatenatedMatrix, clip,
                         paintVars, visitVars, tileVars, brushVars>>
     ELSE unexpected(f, "AllowMatrixWrite")

SetY(f, value) ==
  /\ Count
  /\ IF checkCapability(f, "AllowMatrixWrite")
     THEN /\ matrix' = [matrix EXCEPT ![f].ty = value]
          /\ flags' = invalidatePosition(flags, f)
          /\ ret' = NoRet
          /\ UNCHANGED <<parent, isContainer, capability, concatenatedMatrix, clip,
                         paintVars, visitVars, tileVars, brushVars>>
     ELSE unexpected(f, "AllowMatrixWrite")

SetMatrix(f, value) ==
  /\ Count
  /\ IF checkCapability(f, "AllowMatrixWrite")
     THEN /\ matrix' = [matrix EXCEPT ![f] = value]
          /\ flags' = invalidatePosition(flags, f)
          /\ ret' = NoRet
          /\ UNCHANGED <<parent, isContainer, capability, concatenatedMatrix, clip,
                         paintVars, visitVars, tileVars, brushVars>>
     ELSE unexpected(f, "AllowMatrixWrite")

GetConcatenatedMatrix(f) ==
  LET r == getConcatenatedMatrix(flags, concatenatedMatrix, f)
  IN /\ Count
     /\ flags' = r.flags
     /\ concatenatedMatrix' = r.concatenatedMatrix
     /\ ret' = [op |-> "getConcatenatedMatrix", frame |-> f, value |-> r.value]
     /\ UNCHANGED <<parent, isContainer, capability, matrix, clip, paintVars, visitVars, tileVars, brushVars>>

NextTransform ==
  \/ \E f \in Frames, value \in XValues : SetX(f, value)
  \/ \E f \in Frames, value \in YValues : SetY(f, value)
  \/ \E f \in Frames, value \in MatrixValues : SetMatrix(f, value)
  \/ \E f \in Frames : GetConcatenatedMatrix(f)

SpecTransform == InitTransform /\ [][NextTransform]_vars

(***************************************************************************)
(* The composition of the local matrices on the path from the root to f,   *)
(* root first: a point of f's space is mapped by f's matrix first and by   *)
(* the root's matrix last.                                                 *)
(***************************************************************************)
RECURSIVE RootPath(_)
RootPath(f) == IF parent[f] = Null THEN <<f>> ELSE Append(RootPath(parent[f]), f)

RECURSIVE ComposePath(_, _)
\* The composition of the matrices of path[1..n].
ComposePath(path, n) ==
  IF n = 0 THEN createIdentity
  ELSE preMultiply(ComposePath(path, n - 1), matrix[path[n]])

Composition(f) == ComposePath(RootPath(f), Len(RootPath(f)))

\* C1: getConcatenatedMatrix on a frame returns the composition of the
\* current local matrices on the path from the root to the frame, whatever
\* setter calls and queries on any frames came before.
C1_ConcatenatedMatrixIsComposition ==
  ret.op = "getConcatenatedMatrix" => ret.value = Composition(ret.frame)

\* A query on a frame below a root, both with a matrix that has been set,
\* made while a frame off its path holds a valid cache from an earlier query.
C1_Witness ==
  /\ ret.op = "getConcatenatedMatrix"
  /\ parent[ret.frame] # Null
  /\ matrix[ret.frame] # createIdentity
  /\ matrix[parent[ret.frame]] # createIdentity
  /\ \E g \in Frames :
       /\ g \notin AncestorsIn(parent, ret.frame)
       /\ "InvalidConcatenatedMatrix" \notin flags[g]

\* C2: a frame whose InvalidConcatenatedMatrix flag is clear has the flag
\* clear on every strict ancestor.
C2_ValidImpliesAncestorsValid ==
  \A f \in Frames :
    "InvalidConcatenatedMatrix" \notin flags[f] =>
      \A a \in StrictAncestors(f) : "InvalidConcatenatedMatrix" \notin flags[a]

\* A frame below the root is valid while another frame, whose matrix has
\* been set, is invalid.
C2_Witness ==
  \E f, g \in Frames :
    /\ parent[f] # Null
    /\ "InvalidConcatenatedMatrix" \notin flags[f]
    /\ "InvalidConcatenatedMatrix" \in flags[g]
    /\ matrix[g] # createIdentity

(***************************************************************************)
(* Frame.visit: the iterative traversal.  One step is one turn of the loop *)
(* over frameStack: an entry is popped, the visitor is called and answers, *)
(* and the children are pushed.  The top of a stack is its last element.   *)
(***************************************************************************)
VisitorAnswers == {"Continue", "Skip", "Stop"}

\* The option disableClipping.value, left at its default.
disableClipping == FALSE

Reverse(seq) == [i \in 1..Len(seq) |-> seq[Len(seq) + 1 - i]]

\* FrameContainer.gatherLeaveClipEvents: the children with a clip count
\* >= 0 whose clip ends at child index j (child indices count from 1), in
\* child order.
RECURSIVE leaveClipAt(_, _, _)
leaveClipAt(kids, j, i) ==
  IF i > Len(kids) THEN <<>>
  ELSE (IF clip[kids[i]] >= 0 /\ i + clip[kids[i]] = j THEN <<kids[i]>> ELSE <<>>)
       \o leaveClipAt(kids, j, i + 1)

gatherLeaveClipEvents(f, j) == leaveClipAt(children(f), j, 1)

\* An entry of the three stacks.
Entry(frame, transform, fs) == [frame |-> frame, transform |-> transform, flags |-> fs]

\* The entries pushed for the leave-clip events of one child index.
leaveClipEntries(events, transform) ==
  [k \in 1..Len(events) |->
     Entry(events[k], preMultiply(transform, matrix[events[k]]), {"LeaveClip"})]

RECURSIVE pushClips(_, _, _, _)
\* The loop for (i = length - 1; i >= 0; i--) of the clip branch: the
\* entries pushed for child indices i down to 1, in push order.
pushClips(f, i, transform, fs) ==
  IF i = 0 THEN <<>>
  ELSE LET child == children(f)[i]
       IN leaveClipEntries(gatherLeaveClipEvents(f, i), transform)
          \o <<Entry(child, preMultiply(transform, matrix[child]),
                     IF clip[child] >= 0 THEN fs \cup {"EnterClip"} ELSE fs)>>
          \o pushClips(f, i - 1, transform, fs)

\* A mutant of pushChildren: the children are pushed without the flags the
\* container was visited with.
pushChildrenFlagless(f, frontToBack, transform, fs) ==
  LET kids == children(f)
      length == Len(kids)
  IN [i \in 1..length |->
        LET child == kids[IF frontToBack THEN i ELSE length + 1 - i]
        IN Entry(child, preMultiply(transform, matrix[child]), {})]

\* A mutant of pushChildren: the children are pushed with the transform of
\* their container.
pushChildrenUntransformed(f, frontToBack, transform, fs) ==
  LET kids == children(f)
      length == Len(kids)
  IN [i \in 1..length |->
        Entry(kids[IF frontToBack THEN i ELSE length + 1 - i], transform, fs)]

\* The loop for (i = 0; i < length; i++) of the other branch, in push order.
pushChildren(f, frontToBack, transform, fs) ==
  LET kids == children(f)
      length == Len(kids)
  IN [i \in 1..length |->
        LET child == kids[IF frontToBack THEN i ELSE length + 1 - i]
        IN Entry(child, preMultiply(transform, matrix[child]), fs)]

\* A mutant of pushed: a Skip answer descends like Continue.
pushedSkipDescends(frame, transform, fs, result, visitorFlags) ==
  IF result # "Stop" /\ isContainer[frame]
  THEN IF "Clips" \in visitorFlags /\ ~disableClipping
       THEN pushClips(frame, Len(children(frame)), transform, fs)
       ELSE pushChildren(frame, "FrontToBack" \in visitorFlags, transform, fs)
  ELSE <<>>

\* A mutant of pushed: the children are pushed in child order, whatever the
\* FrontToBack flag says.
pushedInChildOrder(frame, transform, fs, result, visitorFlags) ==
  IF result = "Continue" /\ isContainer[frame]
  THEN IF "Clips" \in visitorFlags /\ ~disableClipping
       THEN pushClips(frame, Len(children(frame)), transform, fs)
       ELSE pushChildren(frame, TRUE, transform, fs)
  ELSE <<>>

\* A mutant of pushed: every child is pushed with the container's flags,
\* and no EnterClip is attached.
pushedNoEnterClip(frame, transform, fs, result, visitorFlags) ==
  IF result = "Continue" /\ isContainer[frame]
  THEN IF "Clips" \in visitorFlags /\ ~disableClipping
       THEN LET es == pushClips(frame, Len(children(frame)), transform, fs)
            IN [k \in 1..Len(es) |->
                  IF es[k].flags = {"LeaveClip"} THEN es[k]
                  ELSE [es[k] EXCEPT !.flags = fs]]
       ELSE pushChildren(frame, "FrontToBack" \in visitorFlags, transform, fs)
  ELSE <<>>

\* A mutant of pushed: with clip processing, the entries are pushed in the
\* order in which they are to be popped.
pushedClipsReversed(frame, transform, fs, result, visitorFlags) ==
  IF result = "Continue" /\ isContainer[frame]
  THEN IF "Clips" \in visitorFlags /\ ~disableClipping
       THEN Reverse(pushClips(frame, Len(children(frame)), transform, fs))
       ELSE pushChildren(frame, "FrontToBack" \in visitorFlags, transform, fs)
  ELSE <<>>

\* What one turn of the loop pushes after the visitor answered result for
\* frame, called with transform and the flags fs.
pushed(frame, transform, fs, result, visitorFlags) ==
  IF result = "Continue" /\ isContainer[frame]
  THEN IF "Clips" \in visitorFlags /\ ~disableClipping
       THEN pushClips(frame, Len(children(frame)), transform, fs)
       ELSE pushChildren(frame, "FrontToBack" \in visitorFlags, transform, fs)
  ELSE <<>>

Front(seq) == SubSeq(seq, 1, Len(seq) - 1)

Last(seq) == seq[Len(seq)]

\* A mutant of afterVisitor: Stop ends the descent only, like Skip.
afterVisitorStopSkips(result, stackAfter) ==
  IF stackAfter = <<>> THEN "done" ELSE "visiting"

\* Where visit is after the visitor answered: Stop returns, and the loop
\* ends when frameStack is empty.
afterVisitor(result, stackAfter) ==
  IF result = "Stop" \/ stackAfter = <<>> THEN "done" ELSE "visiting"

\* The transform argument of a visit that was given none.
NoMatrix == Matrix(0, 0, 0, 0, 0, 0)

\* The head of visit, up to its loop.
visitStart(this, transform, fs) ==
  /\ frameStack' = <<this>>
  /\ transformStack' = IF transform # NoMatrix THEN <<transform>> ELSE <<>>
  /\ flagsStack' = <<fs>>
  /\ pc' = "visiting"
  /\ visited' = <<>>

\* One turn of the loop of visit, in which the visitor answers result.
visitTurn(result) ==
  LET frame == Last(frameStack)
      calculateTransform == call.transform # NoMatrix
      transform == IF calculateTransform THEN Last(transformStack) ELSE NoMatrix
      fs == Last(flagsStack) \cup flags[frame]
      es == pushed(frame, transform, fs, result, call.visitorFlags)
      stackAfter == Front(frameStack) \o [k \in 1..Len(es) |-> es[k].frame]
  IN /\ frameStack' = stackAfter
     /\ transformStack' =
          IF calculateTransform
          THEN Front(transformStack) \o [k \in 1..Len(es) |-> es[k].transform]
          ELSE <<>>
     /\ flagsStack' = Front(flagsStack) \o [k \in 1..Len(es) |-> es[k].flags]
     /\ visited' = Append(visited,
                     [frame |-> frame, flags |-> fs, result |-> result,
                      transform |-> transform,
                      pending |-> Front(frameStack)])
     /\ pc' = afterVisitor(result, stackAfter)

(***************************************************************************)
(* Frame.queryFramesByPoint: the visitor it hands to visit.  The point is  *)
(* inside the bounds of the frames of call.containsPoint, each taken in    *)
(* the frame's own space.                                                  *)
(***************************************************************************)
\* The visitor's answer for frame with the flags fs, and whether it pushes
\* the frame on frames.
queryVisitor(frame, fs) ==
  IF "IgnoreQuery" \in fs THEN [result |-> "Skip", push |-> FALSE]
  ELSE IF frame \in call.containsPoint
  THEN IF isContainer[frame]
       THEN IF call.includeFrameContainers
            THEN [result |-> IF ~call.multiple THEN "Stop" ELSE "Continue", push |-> TRUE]
            ELSE [result |-> "Continue", push |-> FALSE]
       ELSE [result |-> IF ~call.multiple THEN "Stop" ELSE "Continue", push |-> TRUE]
  ELSE [result |-> "Skip", push |-> FALSE]

\* A mutant of queryResult: the frames are returned in visitation order.
queryResultUnreversed(fr) == fr

\* frames.reverse()
queryResult(fr) == Reverse(fr)

(***************************************************************************)
(* The traversal specification: a tree, one call of visit with a visitor   *)
(* that answers as it likes, or one call of queryFramesByPoint.            *)
(***************************************************************************)
\* The tree of the comment in queryFramesByPoint: A(B(C, D), E(F, G)),
\* with A = 0, B = 1, C = 2, D = 3, E = 4, F = 5, G = 6.
ExampleTree == <<Null, 0, 1, 1, 0, 4, 4>>

ExampleParents == [f \in 0..(Len(ExampleTree) - 1) |-> ExampleTree[f + 1]]

\* The clip counts handed to the clip setter.
ClipValues == {0, 1, 2}

\* The flags handed to visit.
FlagsArguments == {{}, {"Dirty"}}

VisitorFlagsArguments == {{}, {"FrontToBack"}, {"Clips"}, {"Clips", "FrontToBack"}}

\* The frames of tree p after construction, the frames of ignored marked
\* IgnoreQuery and the frames of DOMAIN cv given the clip count cv[f].
ConstructedWith(p, ignored, cv) ==
  /\ parent = p
  /\ isContainer = [f \in DOMAIN p |-> \E g \in DOMAIN p : p[g] = f]
  /\ capability = [f \in DOMAIN p |-> AllowAllWrite]
  /\ matrix = [f \in DOMAIN p |-> createIdentity]
  /\ concatenatedMatrix = [f \in DOMAIN p |-> createIdentity]
  /\ flags = [f \in DOMAIN p |->
                IF f \in ignored THEN ConstructorFlags \cup {"IgnoreQuery"}
                ELSE ConstructorFlags]
  /\ clip = [f \in DOMAIN p |-> IF f \in DOMAIN cv THEN cv[f] ELSE -1]
  /\ ConstructedPaint(p)
  /\ ret = NoRet
  /\ ops = 0
  /\ NoVisit
  /\ NewTileCache(NoSource, 0)
  /\ NewBrush

\* A tree in which at most MaxClips frames below the root clip siblings.
InitVisit ==
  \E p \in UNION {Trees(n) : n \in 1..MaxVisitNodes} :
    \E clipping \in SUBSET (DOMAIN p \ {0}) :
      /\ Cardinality(clipping) <= MaxClips
      /\ \E cv \in [clipping -> ClipValues] : ConstructedWith(p, {}, cv)

\* A tree, or the example tree, in which at most one frame is marked
\* IgnoreQuery.
InitQuery ==
  \E p \in UNION {Trees(n) : n \in 1..MaxVisitNodes} \cup {ExampleParents} :
    \E ignored \in SUBSET DOMAIN p :
      /\ Cardinality(ignored) <= 1
      /\ ConstructedWith(p, ignored, <<>>)

\* visit(visitor, transform, flags, visitorFlags) on the root.
Visit(transform, fs, visitorFlags) ==
  /\ pc = "idle"
  /\ call' = [op |-> "visit", transform |-> transform, flags |-> fs,
              visitorFlags |-> visitorFlags]
  /\ visitStart(0, transform, fs)
  /\ UNCHANGED <<frameVars, frames, tileVars, brushVars>>

\* The visitor of the caller answers result.
VisitorAnswer(result) ==
  /\ pc = "visiting"
  /\ call.op = "visit"
  /\ visitTurn(result)
  /\ UNCHANGED <<frameVars, call, frames, tileVars, brushVars>>

\* queryFramesByPoint(query, multiple, includeFrameContainers) on the root.
QueryFramesByPoint(containsPoint, multiple, includeFrameContainers) ==
  /\ pc = "idle"
  /\ call' = [op |-> "queryFramesByPoint", transform |-> createIdentity, flags |-> {},
              visitorFlags |-> {}, containsPoint |-> containsPoint,
              multiple |-> multiple, includeFrameContainers |-> includeFrameContainers]
  /\ visitStart(0, createIdentity, {})
  /\ frames' = <<>>
  /\ UNCHANGED <<frameVars, tileVars, brushVars>>

\* One turn of the loop with the visitor of queryFramesByPoint; when visit
\* returns, the frames are reversed and returned.
QueryVisitor ==
  /\ pc = "visiting"
  /\ call.op = "queryFramesByPoint"
  /\ LET frame == Last(frameStack)
         a == queryVisitor(frame, Last(flagsStack) \cup flags[frame])
     IN /\ visitTurn(a.result)
        /\ frames' = IF a.push THEN Append(frames, frame) ELSE frames
        /\ ret' = IF pc' = "done"
                  THEN [op |-> "queryFramesByPoint", value |-> queryResult(frames')]
                  ELSE ret
  /\ UNCHANGED <<parent, isContainer, capability, matrix, flags, concatenatedMatrix,
                 clip, paintVars, ops, call, tileVars, brushVars>>

NextVisit ==
  \/ \E transform \in {NoMatrix, createIdentity}, fs \in FlagsArguments,
        visitorFlags \in VisitorFlagsArguments :
       Visit(transform, fs, visitorFlags)
  \/ \E result \in VisitorAnswers : VisitorAnswer(result)

SpecVisit == InitVisit /\ [][NextVisit]_vars

NextQuery ==
  \/ \E containsPoint \in SUBSET Frames, multiple \in BOOLEAN,
        includeFrameContainers \in BOOLEAN :
       QueryFramesByPoint(containsPoint, multiple, includeFrameContainers)
  \/ QueryVisitor

SpecQuery == InitQuery /\ [][NextQuery]_vars

(***************************************************************************)
(* Hit testing.                                                            *)
(***************************************************************************)
\* The leaves that the point hits together with all of their containers.
HitLeaves ==
  {f \in Frames : ~isContainer[f] /\ AncestorsIn(parent, f) \subseteq call.containsPoint}

Max(S) == CHOOSE x \in S : \A y \in S : y <= x

NoIgnoreQuery == \A f \in Frames : "IgnoreQuery" \notin flags[f]

\* C3: with multiple = false and two or more leaves hit (with their
\* containers), the result is the one frame painted last among them.  The
\* frames are numbered in paint order.
C3_TopmostLeaf ==
  ( /\ pc = "done"
    /\ call.op = "queryFramesByPoint"
    /\ ~call.multiple
    /\ ~call.includeFrameContainers
    /\ NoIgnoreQuery
    /\ Cardinality(HitLeaves) >= 2 )
  => ret.value = <<Max(HitLeaves)>>

RECURSIVE HitWalk(_)
RECURSIVE HitWalkAll(_, _)
\* The frames a back-to-front pre-order walk from f reports as hit: a walk
\* that leaves a subtree at a frame that is missed or marked IgnoreQuery.
HitWalk(f) ==
  IF "IgnoreQuery" \in flags[f] \/ f \notin call.containsPoint THEN <<>>
  ELSE (IF ~isContainer[f] \/ call.includeFrameContainers THEN <<f>> ELSE <<>>)
       \o HitWalkAll(children(f), 1)

HitWalkAll(kids, i) ==
  IF i > Len(kids) THEN <<>> ELSE HitWalk(kids[i]) \o HitWalkAll(kids, i + 1)

\* C4: with multiple = true the result is the reverse of the back-to-front
\* pre-order sequence of the hit frames: a hit leaf painted later precedes
\* one painted earlier, a hit container follows its hit descendants, and
\* the example tree with D and G hit yields [G, E, D, B, A].
C4_FrontToBackHits ==
  ( /\ pc = "done"
    /\ call.op = "queryFramesByPoint"
    /\ call.multiple )
  => /\ ret.value = Reverse(HitWalk(0))
     /\ \A i, j \in 1..Len(ret.value) :
          /\ (i < j /\ ~isContainer[ret.value[i]] /\ ~isContainer[ret.value[j]])
               => ret.value[i] > ret.value[j]
          /\ ret.value[j] \in StrictAncestors(ret.value[i]) => i < j
     /\ ( /\ parent = ExampleParents
          /\ NoIgnoreQuery
          /\ call.containsPoint = {0, 1, 3, 4, 6}
          /\ call.includeFrameContainers )
        => ret.value = <<6, 4, 3, 1, 0>>

\* The example of the comment in queryFramesByPoint has been queried.
C4_Witness ==
  /\ pc = "done"
  /\ call.op = "queryFramesByPoint"
  /\ call.multiple
  /\ call.includeFrameContainers
  /\ parent = ExampleParents
  /\ NoIgnoreQuery
  /\ call.containsPoint = {0, 1, 3, 4, 6}
  /\ ret.value = <<6, 4, 3, 1, 0>>

(***************************************************************************)
(* Traversal order.                                                        *)
(***************************************************************************)
VisitedFrames == [i \in 1..Len(visited) |-> visited[i].frame]

AllContinue == \A i \in 1..Len(visited) : visited[i].result = "Continue"

ClipProcessing == "Clips" \in call.visitorFlags /\ ~disableClipping

IsPrefix(a, b) == Len(a) <= Len(b) /\ a = SubSeq(b, 1, Len(a))

\* The first position after p at which frame x is visited; 0 if there is
\* none.
FirstAfter(p, x) ==
  LET S == {j \in (p + 1)..Len(visited) : visited[j].frame = x}
  IN IF S = {} THEN 0 ELSE CHOOSE j \in S : \A k \in S : j <= k

\* The flags the visitor sees on child s of a container that was visited
\* with the flags fs.
ChildFlags(fs, s) ==
  fs \cup flags[s] \cup (IF clip[s] >= 0 THEN {"EnterClip"} ELSE {})

\* A finished traversal with clip processing in which the visitor always
\* answered Continue.
ClipTraversalDone ==
  /\ pc = "done"
  /\ call.op = "visit"
  /\ ClipProcessing
  /\ AllContinue

\* The places of the scenario: the container is visited at p, its child
\* kids[i] has clip count 2 and is followed by two siblings.
ClipScenarios ==
  {<<p, i>> \in (1..Len(visited)) \X (1..MaxVisitNodes) :
     LET kids == children(visited[p].frame)
     IN i + 2 <= Len(kids) /\ clip[kids[i]] = 2}

\* The positions at which the clipping child, its two siblings and its
\* leave-clip entry are visited, in this order; 0 where there is none.
ClipPositions(p, i) ==
  LET kids == children(visited[p].frame)
      a == FirstAfter(p, kids[i])
      b1 == IF a = 0 THEN 0 ELSE FirstAfter(a, kids[i + 1])
      b2 == IF b1 = 0 THEN 0 ELSE FirstAfter(b1, kids[i + 2])
      l == IF b2 = 0 THEN 0 ELSE FirstAfter(b2, kids[i])
  IN [enter |-> a, first |-> b1, second |-> b2, leave |-> l]

\* C5 as stated: both siblings are visited with the EnterClip flag, and
\* the leave-clip entry of the clipping frame is visited after them.
C5_SiblingsSeeEnterClip ==
  ClipTraversalDone =>
    \A s \in ClipScenarios :
      LET q == ClipPositions(s[1], s[2])
      IN /\ q.leave # 0
         /\ "EnterClip" \in visited[q.first].flags
         /\ "EnterClip" \in visited[q.second].flags
         /\ "LeaveClip" \in visited[q.leave].flags

\* C5 as amended: the clipping frame itself is visited with EnterClip;
\* each sibling is visited with the flags of the container's entry and its
\* own, and with EnterClip added only if its own clip count is >= 0; the
\* leave-clip entry of the clipping frame is visited after both siblings.
C5_ClipNodeSeesEnterClip ==
  ClipTraversalDone =>
    \A s \in ClipScenarios :
      LET q == ClipPositions(s[1], s[2])
          kids == children(visited[s[1]].frame)
          fs == visited[s[1]].flags
      IN /\ q.leave # 0
         /\ "EnterClip" \in visited[q.enter].flags
         /\ visited[q.first].flags = ChildFlags(fs, kids[s[2] + 1])
         /\ visited[q.second].flags = ChildFlags(fs, kids[s[2] + 2])
         /\ visited[q.leave].flags = {"LeaveClip"} \cup flags[kids[s[2]]]

\* A finished traversal of a container whose first child has clip count 2
\* and whose two other children are visited without EnterClip.
C5_Witness ==
  /\ ClipTraversalDone
  /\ \E s \in ClipScenarios :
       LET q == ClipPositions(s[1], s[2])
       IN /\ q.leave # 0
          /\ "EnterClip" \in visited[q.enter].flags
          /\ "EnterClip" \notin visited[q.first].flags
          /\ "EnterClip" \notin visited[q.second].flags
          /\ "LeaveClip" \in visited[q.leave].flags

RECURSIVE PreOrder(_, _)
RECURSIVE PreOrderAll(_, _, _)
\* The pre-order sequence of the subtree of f: f, then the subtrees of its
\* children, by increasing child index or, front to back, by decreasing.
PreOrder(f, frontToBack) ==
  <<f>> \o PreOrderAll(IF frontToBack THEN Reverse(children(f)) ELSE children(f),
                       1, frontToBack)

PreOrderAll(kids, i, frontToBack) ==
  IF i > Len(kids) THEN <<>>
  ELSE PreOrder(kids[i], frontToBack) \o PreOrderAll(kids, i + 1, frontToBack)

\* C6: without clip processing, and while the visitor answers Continue,
\* the frames are visited in pre-order: a container before its children, a
\* whole subtree before the next sibling, the children by increasing index
\* or, with FrontToBack, by decreasing index.  The sequence is a function
\* of the tree and the flags.
C6_PreOrderWalk ==
  (call.op = "visit" /\ ~ClipProcessing /\ AllContinue) =>
    LET order == PreOrder(0, "FrontToBack" \in call.visitorFlags)
    IN /\ IsPrefix(VisitedFrames, order)
       /\ pc = "done" => VisitedFrames = order

\* A finished back-to-front or front-to-back walk of a tree that has a
\* container with two children and a frame two levels below the root.
C6_WitnessOrder(frontToBack) ==
  /\ pc = "done"
  /\ call.op = "visit"
  /\ ~ClipProcessing
  /\ AllContinue
  /\ ("FrontToBack" \in call.visitorFlags) = frontToBack
  /\ \E f \in Frames : Len(children(f)) >= 2
  /\ \E f \in Frames : parent[f] # Null /\ parent[parent[f]] # Null

C6_Witness == C6_WitnessOrder(TRUE)

\* C7: a Stop answer is the last invocation of the visitor: visit has
\* returned, whatever is left on the stack.
C7_StopTerminates ==
  \A i \in 1..Len(visited) :
    visited[i].result = "Stop" => (i = Len(visited) /\ pc = "done")

\* The visitor has stopped the traversal with entries left on the stack.
C7_Witness ==
  /\ pc = "done"
  /\ Len(visited) >= 2
  /\ Last(visited).result = "Stop"
  /\ frameStack # <<>>

\* C8: after a Skip answer nothing is pushed: the entry visited next is
\* the one that was pending on top of the stack, with the same entries
\* pending below it, as after a leaf; without clip processing no descendant
\* of the skipped frame is visited at all.
C8_SkipKeepsPending ==
  \A i \in 1..Len(visited) :
    visited[i].result = "Skip" =>
      /\ IF i = Len(visited) THEN frameStack = visited[i].pending
         ELSE /\ visited[i].pending # <<>>
              /\ visited[i + 1].frame = Last(visited[i].pending)
              /\ visited[i + 1].pending = Front(visited[i].pending)
      /\ (call.op = "visit" /\ ~ClipProcessing) =>
           \A j \in 1..Len(visited) :
             visited[j].frame \notin Descendants(visited[i].frame) \ {visited[i].frame}

\* A container with children has been skipped and a pending entry has been
\* visited after it.
C8_Witness ==
  \E i \in 1..Len(visited) :
    /\ visited[i].result = "Skip"
    /\ isContainer[visited[i].frame]
    /\ i < Len(visited)
    /\ pc = "done"

(***************************************************************************)
(* RenderableTileCache (src/unnamed/part_000).  Lengths are in pixels; the *)
(* bounds of a source are multiples of 2^MIN_CACHE_LEVELS, so that every   *)
(* level scales them to whole pixels.                                      *)
(***************************************************************************)
SCRATCH_CANVAS_SIZE == 2048
TILE_SIZE == 256
MIN_UNTILED_SIZE == 512
MIN_CACHE_LEVELS == 6
MAX_CACHE_LEVELS == 6
\* The default of cacheTiles' maxRecursionDepth.
DefaultMaxRecursionDepth == 4

Rectangle(x, y, w, h) == [x |-> x, y |-> y, w |-> w, h |-> h]

\* Rectangle.contains
contains(outer, inner) ==
  /\ inner.x >= outer.x
  /\ inner.y >= outer.y
  /\ inner.x + inner.w <= outer.x + outer.w
  /\ inner.y + inner.h <= outer.y + outer.h

Min2(a, b) == IF a < b THEN a ELSE b

Max2(a, b) == IF a > b THEN a ELSE b

clamp(v, lo, hi) == Max2(lo, Min2(v, hi))

\* value * pow2(level)
scaleBy(value, level) ==
  IF level >= 0 THEN value * 2^level ELSE value \div 2^(-level)

\* rectangle.scale(pow2(level), pow2(level))
scaleRectangle(r, level) ==
  Rectangle(scaleBy(r.x, level), scaleBy(r.y, level), scaleBy(r.w, level), scaleBy(r.h, level))

scratchBounds == Rectangle(0, 0, SCRATCH_CANVAS_SIZE, SCRATCH_CANVAS_SIZE)

getAbsoluteSourceBounds(src) == Rectangle(0, 0, src.w, src.h)

\* A mutant of levelOfScale: the rounded logarithm is not clamped.
levelOfScaleUnclamped(halfLevel) ==
  IF halfLevel = 0 THEN 0 ELSE (halfLevel + 1) \div 2

\* The level of a transform whose scale is 2^(-halfLevel / 2):
\* round(log2(1 / transformScale)), where Math.round rounds a half upwards,
\* clamped to the cache levels.
levelOfScale(halfLevel) ==
  IF halfLevel = 0 THEN 0
  ELSE clamp((halfLevel + 1) \div 2, -MIN_CACHE_LEVELS, MAX_CACHE_LEVELS)

RECURSIVE fitDynamic(_, _)
\* The loop that lowers the level of a dynamic source until its bounds fit
\* the scratch canvas; the assertion fails below -MIN_CACHE_LEVELS.
fitDynamic(src, level) ==
  IF contains(scratchBounds, scaleRectangle(getAbsoluteSourceBounds(src), level))
  THEN [level |-> level, fault |-> FALSE]
  ELSE IF level - 1 >= -MIN_CACHE_LEVELS THEN fitDynamic(src, level - 1)
  ELSE [level |-> level - 1, fault |-> TRUE]

\* A mutant of selectLevel: only an invalid dynamic source has its level
\* lowered to fit the scratch canvas.
selectLevelFitsInvalid(src, halfLevel) ==
  LET l0 == levelOfScale(halfLevel)
      l1 == IF src.isDynamic /\ src.isInvalid THEN fitDynamic(src, l0)
            ELSE [level |-> l0, fault |-> FALSE]
  IN [level |-> IF ~src.isScalable THEN clamp(l1.level, -MIN_CACHE_LEVELS, 0) ELSE l1.level,
      fault |-> l1.fault]

\* A mutant of selectLevel: the level of a source that is not scalable is
\* not clamped to the native resolution.
selectLevelScalesAll(src, halfLevel) ==
  LET l0 == levelOfScale(halfLevel)
  IN IF src.isDynamic THEN fitDynamic(src, l0) ELSE [level |-> l0, fault |-> FALSE]

\* The level getTiles selects for the source and the transform.
selectLevel(src, halfLevel) ==
  LET l0 == levelOfScale(halfLevel)
      l1 == IF src.isDynamic THEN fitDynamic(src, l0) ELSE [level |-> l0, fault |-> FALSE]
  IN [level |-> IF ~src.isScalable THEN clamp(l1.level, -MIN_CACHE_LEVELS, 0) ELSE l1.level,
      fault |-> l1.fault]

\* new TileCache(scaledBounds.w, scaledBounds.h, tileW, tileH, scale) of
\* the level.
newTileCache(src, level) ==
  LET scaledBounds == scaleRectangle(getAbsoluteSourceBounds(src), level)
      single == src.isDynamic \/ ~src.isTileable
                  \/ Max2(scaledBounds.w, scaledBounds.h) <= MIN_UNTILED_SIZE
  IN [w |-> scaledBounds.w, h |-> scaledBounds.h,
      tileW |-> IF single THEN scaledBounds.w ELSE TILE_SIZE,
      tileH |-> IF single THEN scaledBounds.h ELSE TILE_SIZE,
      level |-> level]

\* TileCache: the grid of tiles, numbered row by row.
columns(cache) == (cache.w + cache.tileW - 1) \div cache.tileW

rows(cache) == (cache.h + cache.tileH - 1) \div cache.tileH

\* Tile.bounds of tile index of the grid.
tileBounds(cache, index) ==
  Rectangle((index % columns(cache)) * cache.tileW,
            (index \div columns(cache)) * cache.tileH, cache.tileW, cache.tileH)

\* TileCache.getTiles: the tiles that the rectangle r, in the space of the
\* level, intersects, in index order.
tilesIntersecting(cache, r) ==
  LET c0 == Max2(0, r.x \div cache.tileW)
      c1 == Min2(columns(cache) - 1, (r.x + r.w - 1) \div cache.tileW)
      r0 == Max2(0, r.y \div cache.tileH)
      r1 == Min2(rows(cache) - 1, (r.y + r.h - 1) \div cache.tileH)
      nc == c1 - c0 + 1
      nr == r1 - r0 + 1
  IN IF r.w <= 0 \/ r.h <= 0 \/ nc <= 0 \/ nr <= 0 THEN <<>>
     ELSE [k \in 1..(nc * nr) |->
             (r0 + ((k - 1) \div nc)) * columns(cache) + c0 + ((k - 1) % nc)]

\* The value of a map at a key it may not hold yet.
Lookup(map, key, default) == IF key \in DOMAIN map THEN map[key] ELSE default

Store(map, key, value) == (key :> value) @@ map

\* The null texture region.
NoRegion == 0

\* context.cacheImage: a new region of the atlas, or null when it is full.
cacheImage(st) ==
  IF st.capacity > 0
  THEN [region |-> Len(st.regionTexture) + 1,
        st |-> [st EXCEPT !.regionTexture = Append(@, TRUE), !.capacity = @ - 1]]
  ELSE [region |-> NoRegion, st |-> st]

\* cacheImageCallback: a tile without a region gets a new one, a tile with
\* a region has the region's pixels updated and keeps it.
cacheImageCallback(oldTextureRegion, st) ==
  IF oldTextureRegion = NoRegion THEN cacheImage(st)
  ELSE [region |-> oldTextureRegion, st |-> st]

SetMin(S) == CHOOSE v \in S : \A u \in S : v <= u

SetMax(S) == CHOOSE v \in S : \A u \in S : v >= u

\* The union of the bounds of the tiles.
getTileBounds(cache, tiles) ==
  LET bounds == {tileBounds(cache, tiles[i]) : i \in 1..Len(tiles)}
      x == SetMin({b.x : b \in bounds})
      y == SetMin({b.y : b \in bounds})
  IN Rectangle(x, y, SetMax({b.x + b.w : b \in bounds}) - x,
               SetMax({b.y + b.h : b \in bounds}) - y)

\* The key of a tile: its level index and its index in the grid.
TileKey(cache, index) == <<MIN_CACHE_LEVELS + cache.level, index>>

\* The loop of cacheTiles over uncachedTiles, whose tiles are distinct: the
\* state after it and the tiles that did not fit.  Turn i does
\* tile.cachedTextureRegion = cacheImageCallback(tile.cachedTextureRegion,
\* scratchContext, region), whether the region fits the scratch canvas or
\* not.  The turns act on each other only through the atlas, which every
\* turn of a tile without a region asks for one more region.  The history
\* field fitted collects the tiles uploaded from a region that fits.
cacheTilesLoop(cache, tiles, origin, st) ==
  LET key(i) == TileKey(cache, tiles[i])
      old(i) == Lookup(st.tileRegion, key(i), NoRegion)
      \* The regions the atlas has handed out before turn i.
      handed(i) == Min2(Cardinality({j \in 1..(i - 1) : old(j) = NoRegion}), st.capacity)
      \* The state at the start of turn i.
      before(i) == [st EXCEPT !.regionTexture = @ \o [k \in 1..handed(i) |-> TRUE],
                              !.capacity = @ - handed(i)]
      region(i) == cacheImageCallback(old(i), before(i)).region
      fits(tile) ==
        LET b == tileBounds(cache, tile)
        IN contains(scratchBounds, Rectangle(b.x - origin.x, b.y - origin.y, b.w, b.h))
      turns == 1..Len(tiles)
      keys == {key(i) : i \in turns}
      turnOf(k) == CHOOSE i \in turns : key(i) = k
      after == before(Len(tiles) + 1)
  IN [st |-> [after EXCEPT
                !.tileRegion = [k \in DOMAIN @ \cup keys |->
                                  IF k \in keys THEN region(turnOf(k)) ELSE @[k]],
                !.uploads = [k \in DOMAIN @ \cup keys |->
                               IF k \in keys THEN Lookup(@, k, 0) + 1 ELSE @[k]],
                !.fitted = @ \cup {key(i) : i \in {t \in turns : fits(tiles[t])}}],
      remaining |-> SelectSeq(tiles, LAMBDA tile : ~fits(tile))]

\* A mutant of depthExhausted: the call returns silently.
depthExhaustedSilently(st) == st

\* The assertion on maxRecursionDepth fails: "Infinite recursion is likely."
depthExhausted(st) == [st EXCEPT !.fault = TRUE]

RECURSIVE cacheTiles(_, _, _, _)
\* cacheTiles(scratchContext, uncachedTiles, cacheImageCallback,
\* scratchBounds, maxRecursionDepth): the state after it.  The history
\* field depths collects the maxRecursionDepth of every call, in call order.
cacheTiles(cache, uncachedTiles, maxRecursionDepth, st) ==
  IF maxRecursionDepth <= 0
  THEN depthExhausted([st EXCEPT !.depths = Append(@, maxRecursionDepth)])
  ELSE LET uncachedTileBounds == getTileBounds(cache, uncachedTiles)
           rendered == [st EXCEPT !.renders = @ + 1,
                                  !.depths = Append(@, maxRecursionDepth)]
           r == cacheTilesLoop(cache, uncachedTiles, uncachedTileBounds, rendered)
           remaining == r.remaining
       IN IF remaining = <<>> THEN r.st
          ELSE IF Len(remaining) >= 2
          THEN LET a == SubSeq(remaining, 1, Len(remaining) \div 2)
                   b == SubSeq(remaining, Len(a) + 1, Len(remaining))
                   sa == cacheTiles(cache, a, maxRecursionDepth - 1, r.st)
               IN IF sa.fault THEN sa
                  ELSE cacheTiles(cache, b, maxRecursionDepth - 1, sa)
          ELSE cacheTiles(cache, remaining, maxRecursionDepth - 1, r.st)

\* Whether the region is one with a texture.
Live(regions, region) == region # NoRegion /\ regions[region]

\* A mutant of isUncached: every tile is taken for a miss.
isUncachedAlways(src, regions, region) == TRUE

\* A mutant of isUncached: only a tile without a region that has a texture
\* is taken for a miss.
isUncachedUnbound(src, regions, region) == region = NoRegion \/ ~regions[region]

\* The test of fetchTiles for a tile that has to be cached.
isUncached(src, regions, region) ==
  \/ region = NoRegion
  \/ ~regions[region]
  \/ (src.isDynamic /\ src.isInvalid)

\* The loop of fetchTiles over tiles: the tiles that have to be cached.
selectUncached(cache, tiles) ==
  SelectSeq(tiles, LAMBDA tile :
              isUncached(source, regionTexture,
                         Lookup(tileRegion, TileKey(cache, tile), NoRegion)))

\* fetchTiles(query, transform, scratchContext, cacheImageCallback): the
\* state after it and what it returns.  The transform scales by
\* 2^(-halfLevel / 2) and maps the query rectangle to the rectangle query
\* of the source's space.
fetchTiles(query, halfLevel) ==
  LET sel == selectLevel(source, halfLevel)
      levelIndex == MIN_CACHE_LEVELS + sel.level
      cache == Lookup(cacheLevels, levelIndex, newTileCache(source, sel.level))
      tiles == tilesIntersecting(cache, scaleRectangle(query, sel.level))
      st0 == [tileRegion |-> tileRegion, regionTexture |-> regionTexture,
              capacity |-> capacity, renders |-> 0, uploads |-> <<>>, fault |-> FALSE,
              depths |-> <<>>, fitted |-> {}]
      uncachedTiles == selectUncached(cache, tiles)
      st == IF uncachedTiles # <<>>
            THEN cacheTiles(cache, uncachedTiles, DefaultMaxRecursionDepth, st0)
            ELSE st0
  IN IF sel.fault
     THEN [cacheLevels |-> cacheLevels, st |-> [st0 EXCEPT !.fault = TRUE],
           level |-> sel.level, tiles |-> <<>>, uncachedTiles |-> <<>>]
     ELSE [cacheLevels |-> Store(cacheLevels, levelIndex, cache), st |-> st,
           level |-> sel.level, tiles |-> [k \in 1..Len(tiles) |-> TileKey(cache, tiles[k])],
           uncachedTiles |-> [k \in 1..Len(uncachedTiles) |-> TileKey(cache, uncachedTiles[k])]]

(***************************************************************************)
(* The tile cache specification: one source, fetchTiles calls, and the     *)
(* eviction of the atlas texture by the renderer's context.                *)
(***************************************************************************)
\* The bounds of the sources: a strip wider than the scratch canvas at its
\* own scale, and a square that one tile holds.
SourceBounds == {<<2304, 64>>, <<512, 512>>}

AtlasSizes == {3, 100}

Sources ==
  {[w |-> b[1], h |-> b[2], isDynamic |-> d, isScalable |-> s, isTileable |-> t,
    isInvalid |-> i] :
     b \in SourceBounds, d \in BOOLEAN, s \in BOOLEAN, t \in BOOLEAN, i \in BOOLEAN}

\* The query rectangles, in the source's space.
Queries == {Rectangle(0, 0, 2304, 64), Rectangle(0, 0, 512, 512), Rectangle(1024, 0, 1024, 64)}

\* The scales of the transforms: 2, 1 and 1 / sqrt(2).
HalfLevels == {-2, 0, 1}

InitTiles ==
  /\ Constructed([f \in {0} |-> Null])
  /\ NoVisit
  /\ \E src \in Sources, size \in AtlasSizes : NewTileCache(src, size)
  /\ NewBrush

Fetches == {i \in 1..Len(log) : log[i].op = "fetchTiles"}

FetchTiles(query, halfLevel) ==
  /\ Cardinality(Fetches) < MaxFetches
  /\ \E r \in {fetchTiles(query, halfLevel)} :
        /\ cacheLevels' = r.cacheLevels
        /\ tileRegion' = r.st.tileRegion
        /\ regionTexture' = r.st.regionTexture
        /\ capacity' = r.st.capacity
        /\ log' = Append(log,
                    [op |-> "fetchTiles", query |-> query, halfLevel |-> halfLevel,
                     level |-> r.level, tiles |-> r.tiles,
                     uncachedTiles |-> r.uncachedTiles,
                     regions |-> [k \in 1..Len(r.tiles) |->
                                    Lookup(r.st.tileRegion, r.tiles[k], NoRegion)],
                     live |-> [k \in 1..Len(r.tiles) |->
                                 Live(r.st.regionTexture,
                                      Lookup(r.st.tileRegion, r.tiles[k], NoRegion))],
                     renders |-> r.st.renders, uploads |-> r.st.uploads,
                     depths |-> r.st.depths, fitted |-> r.st.fitted,
                     fault |-> r.st.fault])
  /\ UNCHANGED <<frameVars, visitVars, brushVars, source, atlasSize, atlasVars>>

\* The context evicts the atlas texture: its regions lose their texture
\* and the atlas is reset.
Evict ==
  /\ \E r \in 1..Len(regionTexture) : regionTexture[r]
  /\ regionTexture' = [r \in 1..Len(regionTexture) |-> FALSE]
  /\ capacity' = atlasSize
  /\ log' = Append(log, [op |-> "evict"])
  /\ UNCHANGED <<frameVars, visitVars, brushVars, source, cacheLevels, tileRegion, atlasSize,
                 atlasVars>>

NextTiles ==
  \/ \E query \in Queries, halfLevel \in HalfLevels : FetchTiles(query, halfLevel)
  \/ Evict

SpecTiles == InitTiles /\ [][NextTiles]_vars

(***************************************************************************)
(* Claims about the tile cache.                                            *)
(***************************************************************************)
\* Whether the context evicted the atlas texture between log entries i and j.
EvictedBetween(i, j) == \E k \in (i + 1)..(j - 1) : log[k].op = "evict"

\* Whether the fetch of log entry i returned tiles that are all bound to a
\* region with a texture.
CachedTheTiles(i) ==
  /\ ~log[i].fault
  /\ log[i].tiles # <<>>
  /\ \A k \in 1..Len(log[i].tiles) : log[i].live[k]

\* A fetch and a later fetch of a static source with the same query and
\* transform, the first of which cached the tiles, with no eviction between.
Refetch(i, j) ==
  /\ i \in Fetches /\ j \in Fetches /\ i < j
  /\ ~source.isDynamic
  /\ log[j].query = log[i].query
  /\ log[j].halfLevel = log[i].halfLevel
  /\ CachedTheTiles(i)
  /\ ~EvictedBetween(i, j)

\* C9: for a static source, a second fetchTiles with the query and the
\* transform of a first one that cached the tiles, with no eviction in
\* between, returns the same tiles bound to the same texture regions, and
\* calls neither source.render nor the upload callback.
C9_RefetchIsCached ==
  \A i \in 1..Len(log), j \in 1..Len(log) :
    Refetch(i, j) =>
      /\ ~log[j].fault
      /\ log[j].tiles = log[i].tiles
      /\ log[j].regions = log[i].regions
      /\ \A k \in 1..Len(log[j].tiles) : log[j].live[k]
      /\ log[j].renders = 0
      /\ log[j].uploads = <<>>

\* A re-fetch of tiles that the first call cached in more than one pass.
C9_Witness ==
  \E i \in 1..Len(log), j \in 1..Len(log) :
    /\ Refetch(i, j)
    /\ log[i].renders > 1
    /\ Len(log[i].tiles) > 1
    /\ log[i].uncachedTiles = log[i].tiles

\* C10: during one fetchTiles the upload callback is invoked exactly once
\* for each tile of the miss batch, the tiles deferred to a recursive pass
\* included.
C10_UploadOncePerMiss ==
  \A i \in Fetches :
    ~log[i].fault =>
      /\ DOMAIN log[i].uploads = {log[i].uncachedTiles[k] : k \in 1..Len(log[i].uncachedTiles)}
      /\ \A key \in DOMAIN log[i].uploads : log[i].uploads[key] = 1

\* The tiles of the miss batch of the fetch of log entry i.
MissBatch(i) == {log[i].uncachedTiles[k] : k \in 1..Len(log[i].uncachedTiles)}

\* C11: cacheTiles terminates for every non-empty miss batch: no call nests
\* deeper than DefaultMaxRecursionDepth, and a call made once that depth is
\* used up fails its assertion, which ends the step: it neither recurses
\* again nor returns silently with tiles that never fitted.
C11_CachingStepIsBounded ==
  \A i \in Fetches :
    log[i].uncachedTiles # <<>> =>
      LET depths == log[i].depths
      IN /\ depths # <<>>
         /\ depths[1] = DefaultMaxRecursionDepth
         /\ \A k \in 1..Len(depths) : depths[k] \in 0..DefaultMaxRecursionDepth
         /\ \A k \in 1..Len(depths) : depths[k] = 0 => (k = Len(depths) /\ log[i].fault)
         /\ log[i].fault <=> depths[Len(depths)] = 0
         /\ ~log[i].fault => log[i].fitted = MissBatch(i)
         /\ log[i].fault => log[i].fitted # MissBatch(i)

\* A fetch whose caching step nested DefaultMaxRecursionDepth calls and
\* failed in the call after them.
C11_Witness ==
  \E i \in Fetches :
    /\ log[i].uncachedTiles # <<>>
    /\ log[i].fault
    /\ log[i].depths = <<4, 3, 2, 1, 0>>
    /\ log[i].renders = DefaultMaxRecursionDepth

(***************************************************************************)
(* The level selection specification: getTiles' choice of the level and of *)
(* the level's TileCache, for sources of several bounds and transforms of  *)
(* scales 2^7 down to 2^(-7) in steps of sqrt(2).                          *)
(***************************************************************************)
\* The bounds of the sources: the last one is wider than the scratch canvas
\* at every level.
LevelBounds == {<<512, 512>>, <<2304, 64>>, <<131136, 64>>}

LevelSources ==
  {[w |-> b[1], h |-> b[2], isDynamic |-> d, isScalable |-> s, isTileable |-> t,
    isInvalid |-> i] :
     b \in LevelBounds, d \in BOOLEAN, s \in BOOLEAN, t \in BOOLEAN, i \in BOOLEAN}

\* The scales of the transforms, as half levels: the scale 1, whole and half
\* powers of two next to it, and scales at and beyond both ends of the cache
\* levels.
LevelHalfLevels == {-14, -13, -12, -7, -2, -1, 0, 1, 2, 7, 12, 13, 14}

InitLevels ==
  /\ Constructed([f \in {0} |-> Null])
  /\ NoVisit
  /\ \E src \in LevelSources : NewTileCache(src, 0)
  /\ NewBrush

\* getTiles up to the choice of the level's TileCache, for a transform of
\* scale 2^(-halfLevel / 2).
SelectLevel(halfLevel) ==
  /\ Len(log) < MaxFetches
  /\ \E sel \in {selectLevel(source, halfLevel)} :
       LET levelIndex == MIN_CACHE_LEVELS + sel.level
       IN /\ cacheLevels' =
               IF sel.fault THEN cacheLevels
               ELSE Store(cacheLevels, levelIndex,
                          Lookup(cacheLevels, levelIndex, newTileCache(source, sel.level)))
          /\ log' = Append(log, [op |-> "getTiles", halfLevel |-> halfLevel,
                                 level |-> sel.level, fault |-> sel.fault,
                                 cacheLevels |-> cacheLevels])
  /\ UNCHANGED <<frameVars, visitVars, brushVars, source, tileRegion, regionTexture, atlasSize,
                 capacity, atlasVars>>

NextLevels == \E halfLevel \in LevelHalfLevels : SelectLevel(halfLevel)

SpecLevels == InitLevels /\ [][NextLevels]_vars

\* What getTiles selected in log entry i: the level, or the failure of the
\* assertion.
Selected(i) == [level |-> log[i].level, fault |-> log[i].fault]

\* Whether the sources have the same isDynamic, isScalable and isTileable.
SameFlags(a, b) ==
  /\ a.isDynamic = b.isDynamic
  /\ a.isScalable = b.isScalable
  /\ a.isTileable = b.isTileable

\* C12 as stated: the level is a function of the transform's scale and of
\* isDynamic, isScalable and isTileable alone: every source with the flags
\* of this one selects, for the scale of a call, the level the call selected.
C12_LevelIsFunctionOfScaleAndFlags ==
  \A i \in 1..Len(log) :
    \A src \in LevelSources :
      SameFlags(src, source) => selectLevel(src, log[i].halfLevel) = Selected(i)

\* C12, amended: the level is a function of the transform's scale, of
\* isDynamic and isScalable and, for a dynamic source, of its bounds: it does
\* not depend on earlier calls, on the cache levels created so far, nor on
\* isTileable or isInvalid.
C12_LevelIsFunctionOfScaleFlagsAndBounds ==
  /\ \A i \in 1..Len(log), j \in 1..Len(log) :
       log[i].halfLevel = log[j].halfLevel => Selected(i) = Selected(j)
  /\ \A i \in 1..Len(log) :
       \A src \in LevelSources :
         (/\ src.isDynamic = source.isDynamic
          /\ src.isScalable = source.isScalable
          /\ source.isDynamic => (src.w = source.w /\ src.h = source.h))
           => selectLevel(src, log[i].halfLevel) = Selected(i)

\* Two calls with the same scale, the second with a cache level the first
\* one did not find, on a dynamic source whose bounds lowered the level.
C12_Witness ==
  \E i \in 1..Len(log), j \in 1..Len(log) :
    /\ i < j
    /\ log[i].halfLevel = log[j].halfLevel
    /\ log[i].cacheLevels # log[j].cacheLevels
    /\ source.isDynamic
    /\ ~log[j].fault
    /\ log[j].level < levelOfScale(log[j].halfLevel)

\* C13: for every transform scale, source flags and source bounds the level
\* getTiles selects lies in -MIN_CACHE_LEVELS..MAX_CACHE_LEVELS, and the
\* index of its cache level in 0..12, also for a dynamic source whose level
\* is lowered until its bounds fit the scratch canvas; getTiles selects no
\* level only when a dynamic source does not fit at level -MIN_CACHE_LEVELS,
\* where its assertion fails.
C13_LevelInRange ==
  /\ \A i \in 1..Len(log) :
       /\ ~log[i].fault =>
            /\ log[i].level \in (-MIN_CACHE_LEVELS)..MAX_CACHE_LEVELS
            /\ MIN_CACHE_LEVELS + log[i].level \in 0..(MIN_CACHE_LEVELS + MAX_CACHE_LEVELS)
       /\ log[i].fault <=>
            /\ source.isDynamic
            /\ ~contains(scratchBounds,
                         scaleRectangle(getAbsoluteSourceBounds(source), -MIN_CACHE_LEVELS))
  /\ DOMAIN cacheLevels \subseteq 0..(MIN_CACHE_LEVELS + MAX_CACHE_LEVELS)

\* A dynamic source for which one call clamped the level of a scale of 2^7
\* to -MIN_CACHE_LEVELS and another call lowered the level of its scale.
C13_Witness ==
  \E i \in 1..Len(log), j \in 1..Len(log) :
    /\ source.isDynamic
    /\ ~log[i].fault /\ ~log[j].fault
    /\ log[i].halfLevel = -14
    /\ log[i].level = -MIN_CACHE_LEVELS
    /\ log[j].level < levelOfScale(log[j].halfLevel)
    /\ MIN_CACHE_LEVELS + log[j].level \in DOMAIN cacheLevels

(***************************************************************************)
(* WebGLCombinedBrush (src/unnamed/part_000).  A texture is a number, a    *)
(* colour transform is a number (equal numbers are equal matrices), and a  *)
(* normalized texture coordinate is a fraction that is not reduced.        *)
(***************************************************************************)
\* The number of texture samplers of a batch.
MaxSamplers == 8

\* The texture of a region whose texture is gone; drawImage treats a null
\* region the same way.
NoTexture == 0

\* new WebGLTextureRegion(texture, region), with the texture's size.
WebGLTextureRegion(texture, w, h, region) ==
  [texture |-> texture, w |-> w, h |-> h, region |-> region]

Fraction(n, d) == [n |-> n, d |-> d]

\* The brush as a value.
Brush == [textures |-> textures, colorTransform |-> colorTransform,
          geometry |-> geometry, draws |-> draws]

\* A mutant of reset: the bound textures are dropped and the geometry stays.
resetTexturesOnly(b) == [b EXCEPT !.textures = <<>>]

\* WebGLCombinedBrush.reset
reset(b) == [b EXCEPT !.textures = <<>>, !.geometry = <<>>]

\* A mutant of flush: the batch is submitted and not reset.
flushKeepsBatch(b, drawElements) ==
  [b EXCEPT !.draws = Append(@, [quads |-> b.geometry, textures |-> b.textures,
                                 colorTransform |-> b.colorTransform,
                                 drawElements |-> drawElements])]

\* WebGLCombinedBrush.flush: the batch is submitted with the textures and
\* the colour transform of the brush, and the brush is reset.
flush(b, drawElements) ==
  reset([b EXCEPT !.draws = Append(@, [quads |-> b.geometry, textures |-> b.textures,
                                       colorTransform |-> b.colorTransform,
                                       drawElements |-> drawElements])])

\* A mutant of indexOf: nothing is ever found.
indexOfNothing(seq, v) == -1

\* Array.prototype.indexOf, counting from 0.
indexOf(seq, v) ==
  IF \E i \in 1..Len(seq) : seq[i] = v
  THEN SetMin({i \in 1..Len(seq) : seq[i] = v}) - 1
  ELSE -1

\* A mutant of coordinates: the border of one pixel is not taken off.
coordinatesWithBorder(src) ==
  LET x == src.region.x
      y == src.region.y
      w == src.region.w
      h == src.region.h
  IN <<[x |-> Fraction(x, src.w), y |-> Fraction(y, src.h)],
       [x |-> Fraction(x + w, src.w), y |-> Fraction(y, src.h)],
       [x |-> Fraction(x + w, src.w), y |-> Fraction(y + h, src.h)],
       [x |-> Fraction(x, src.w), y |-> Fraction(y + h, src.h)]>>

\* The coordinates of the four vertices: the region without its border of
\* one pixel, scaled by the size of the texture.
coordinates(src) ==
  LET x == src.region.x + 1
      y == src.region.y + 1
      w == src.region.w - 2
      h == src.region.h - 2
  IN <<[x |-> Fraction(x, src.w), y |-> Fraction(y, src.h)],
       [x |-> Fraction(x + w, src.w), y |-> Fraction(y, src.h)],
       [x |-> Fraction(x + w, src.w), y |-> Fraction(y + h, src.h)],
       [x |-> Fraction(x, src.w), y |-> Fraction(y + h, src.h)]>>

\* A mutant of colorTransformChanged: the batch takes every colour transform.
colorTransformNeverChanged(current, new) == FALSE

\* The test of drawImage for a colour transform that the batch cannot take.
colorTransformChanged(current, new) ==
  current # NoColorTransform /\ (new = NoColorTransform \/ current # new)

\* A mutant of samplersExhausted: the batch takes any number of textures.
samplersNeverExhausted(bound) == FALSE

\* The test of drawImage for a batch that cannot bind another texture.
samplersExhausted(bound) == Len(bound) = MaxSamplers

\* A null src.  drawImage reads nothing of it; it is written as a region of
\* no texture and of no size so that the history of the calls can hold it.
NullRegion == WebGLTextureRegion(NoTexture, 0, 0, Rectangle(0, 0, 0, 0))

\* A mutant of missing: only a null src is missing.
missingOnlyNull(src) == src = NullRegion

\* The first test of drawImage: !src || !src.texture
missing(src) == src = NullRegion \/ src.texture = NoTexture

\* What drawImage returns: true from its early return and true from its end.
drawImageReturns(src) == IF missing(src) THEN TRUE ELSE TRUE

\* WebGLCombinedBrush.drawImage; id numbers the quad for the history.
drawImage(b, src, new, id) ==
  IF missing(src) THEN b
  ELSE LET b1 == IF colorTransformChanged(b.colorTransform, new) THEN flush(b, TRUE) ELSE b
           b2 == [b1 EXCEPT !.colorTransform = new]
           found == indexOf(b2.textures, src.texture)
           b3 == IF found >= 0 THEN b2
                 ELSE [(IF samplersExhausted(b2.textures) THEN flush(b2, TRUE) ELSE b2)
                         EXCEPT !.textures = Append(@, src.texture)]
           sampler == IF found >= 0 THEN found ELSE Len(b3.textures) - 1
       IN [b3 EXCEPT !.geometry =
             Append(@, [id |-> id,
                        kind |-> IF new # NoColorTransform
                                 THEN "FillTextureWithColorMatrix" ELSE "FillTexture",
                        sampler |-> sampler,
                        texture |-> src.texture,
                        coordinate |-> coordinates(src)])]

\* WebGLCombinedBrush.fillRectangle
fillRectangle(b, id) ==
  [b EXCEPT !.geometry = Append(@, [id |-> id, kind |-> "FillColor"])]

(***************************************************************************)
(* The brush specification: render passes, each one a reset, calls of      *)
(* drawImage and fillRectangle, and a last flush.                          *)
(***************************************************************************)
SetBrush(b) ==
  /\ textures' = b.textures
  /\ colorTransform' = b.colorTransform
  /\ geometry' = b.geometry
  /\ draws' = b.draws

\* The number to give to the quad of the next call.
NextId == Len(calls) + 1

\* render: brush.reset()
Reset ==
  /\ ~drawing
  /\ Len(calls) < MaxCalls
  /\ SetBrush(reset(Brush))
  /\ calls' = Append(calls, [op |-> "reset", plain |-> TRUE])
  /\ drawing' = TRUE
  /\ UNCHANGED <<frameVars, visitVars, tileVars>>

\* Whether a drawImage call is the plain one: a live texture that the batch
\* has not bound, with a colour transform the batch can take.
Plain(src, new) ==
  /\ src.texture # NoTexture
  /\ indexOf(textures, src.texture) < 0
  /\ ~colorTransformChanged(colorTransform, new)

Varied == Cardinality({i \in 1..Len(calls) : ~calls[i].plain})

\* render: brush.drawImage(src, ..., colorTransform, ...)
DrawImage(src, new) ==
  /\ drawing
  /\ Len(calls) < MaxCalls
  /\ Plain(src, new) \/ Varied < MaxVaried
  /\ \E b \in {drawImage(Brush, src, new, NextId)} :
       /\ SetBrush(b)
       /\ calls' = Append(calls,
                     [op |-> "drawImage", plain |-> Plain(src, new), id |-> NextId,
                      src |-> src, colorTransform |-> new,
                      bound |-> textures, current |-> colorTransform,
                      flushes |-> Len(b.draws) - Len(draws),
                      returned |-> drawImageReturns(src)])
  /\ UNCHANGED <<frameVars, visitVars, tileVars, drawing>>

\* render: brush.fillRectangle(...)
FillRectangle ==
  /\ drawing
  /\ Len(calls) < MaxCalls
  /\ Varied < MaxVaried
  /\ SetBrush(fillRectangle(Brush, NextId))
  /\ calls' = Append(calls, [op |-> "fillRectangle", plain |-> FALSE, id |-> NextId])
  /\ UNCHANGED <<frameVars, visitVars, tileVars, drawing>>

\* render: brush.flush(options.drawElements), the end of the pass.
Flush(drawElements) ==
  /\ drawing
  /\ Len(calls) < MaxCalls
  /\ Varied < MaxVaried
  /\ SetBrush(flush(Brush, drawElements))
  /\ calls' = Append(calls, [op |-> "flush", plain |-> FALSE])
  /\ drawing' = FALSE
  /\ UNCHANGED <<frameVars, visitVars, tileVars>>

ColorTransforms == {NoColorTransform, 1, 2}

\* The size of the textures of the brush specification.
TextureSize == 1024

\* A texture the batch has not bound.
UnboundTexture ==
  SetMin({t \in 1..(MaxSamplers + 1) : indexOf(textures, t) < 0})

BrushRegion(t) ==
  WebGLTextureRegion(t, TextureSize, TextureSize, Rectangle(0, 0, 256, 256))

\* The arguments of drawImage: a region of a texture the batch has not
\* bound, with any colour transform, and a region of the last texture it
\* has bound and a region whose texture is gone, with the brush's colour
\* transform.
BrushArguments ==
  ({BrushRegion(UnboundTexture)} \X ColorTransforms)
    \cup {<<BrushRegion(t), colorTransform>> :
            t \in {NoTexture} \cup {textures[i] : i \in {Len(textures)} \cap DOMAIN textures}}

\* options.drawElements
DrawElementsOptions == {TRUE}

InitBrush ==
  /\ Constructed([f \in {0} |-> Null])
  /\ NoVisit
  /\ NewTileCache(NoSource, 0)
  /\ NewBrush

NextBrush ==
  \/ Reset
  \/ \E args \in BrushArguments : DrawImage(args[1], args[2])
  \/ FillRectangle
  \/ \E drawElements \in DrawElementsOptions : Flush(drawElements)

SpecBrush == InitBrush /\ [][NextBrush]_vars

(***************************************************************************)
(* Claims about the brush.                                                 *)
(***************************************************************************)
\* The calls of the batch that the reset of calls[r] started: the drawImage
\* calls that follow it without another kind of call in between.
BatchOf(r) ==
  {k \in (r + 1)..Len(calls) : \A j \in (r + 1)..k : calls[j].op = "drawImage"}

\* Whether the drawImage calls ks draw live textures, at most MaxSamplers
\* distinct ones, all with the same colour transform.
Uniform(ks) ==
  /\ \A k \in ks : calls[k].src.texture # NoTexture
  /\ Cardinality({calls[k].src.texture : k \in ks}) <= MaxSamplers
  /\ \A k \in ks, j \in ks : calls[k].colorTransform = calls[j].colorTransform

\* C14: in a batch that reset() started, on a new brush or on a used one,
\* drawImage calls of live textures, at most 8 distinct ones, with the same
\* colour transform on every call, trigger no flush.
C14_UniformBatchDoesNotFlush ==
  \A r \in 1..Len(calls) :
    (calls[r].op = "reset" /\ Uniform(BatchOf(r))) =>
      \A k \in BatchOf(r) : calls[k].flushes = 0

\* C15: a drawImage of a texture that the batch has not bound, while it has
\* bound 8, flushes before it writes the quad: the flush submits the quads
\* and the 8 textures of the batch, and the new quad is the only one of the
\* next batch, with its texture in sampler slot 0.
C15_NinthTextureFlushesFirst ==
  LET k == Len(calls)
  IN (/\ k > 0
      /\ calls[k].op = "drawImage"
      /\ calls[k].src.texture # NoTexture
      /\ indexOf(calls[k].bound, calls[k].src.texture) < 0
      /\ Len(calls[k].bound) = MaxSamplers)
       => /\ calls[k].flushes = 1
          /\ draws[Len(draws)].textures = calls[k].bound
          /\ \A i \in 1..Len(draws[Len(draws)].quads) :
               draws[Len(draws)].quads[i].id < calls[k].id
          /\ Len(geometry) = 1
          /\ geometry[1].id = calls[k].id
          /\ geometry[1].sampler = 0
          /\ geometry[1].texture = calls[k].src.texture
          /\ textures = <<calls[k].src.texture>>

\* The ninth texture of a batch of one colour transform was just drawn.
C15_Witness ==
  /\ Len(calls) > MaxSamplers
  /\ calls[Len(calls)].op = "drawImage"
  /\ calls[Len(calls)].src.texture # NoTexture
  /\ Len(calls[Len(calls)].bound) = MaxSamplers
  /\ indexOf(calls[Len(calls)].bound, calls[Len(calls)].src.texture) < 0
  /\ calls[Len(calls)].current = calls[Len(calls)].colorTransform
  /\ Len(draws[Len(draws)].quads) >= MaxSamplers

\* The numbers of the quads that the calls recorded.
Recorded ==
  {calls[k].id : k \in {j \in 1..Len(calls) :
                          \/ calls[j].op = "fillRectangle"
                          \/ (calls[j].op = "drawImage" /\ calls[j].src.texture # NoTexture)}}

\* The places of the quads that the flushes submitted.
Submitted == {<<d, i>> : d \in 1..Len(draws), i \in 1..MaxCalls} \cap
             {p \in (1..Len(draws)) \X (1..MaxCalls) : p[2] <= Len(draws[p[1]].quads)}

PaddedTile == Rectangle(0, 0, TILE_SIZE, TILE_SIZE)

\* The widths and heights of the textures.
CoordinateTextureSizes == {256, 1024}

\* The places of a padded tile along an axis of the given size: at its
\* start, at its end and in between.
Placements(size) == {p \in {0, 3, size - TILE_SIZE} : p + TILE_SIZE <= size}

CoordinateRegions ==
  UNION {{WebGLTextureRegion(1, w, h, Rectangle(x, y, PaddedTile.w, PaddedTile.h)) :
            x \in Placements(w), y \in Placements(h)} :
           w \in CoordinateTextureSizes, h \in CoordinateTextureSizes}

NextCoordinates ==
  \/ Reset
  \/ \E src \in CoordinateRegions : DrawImage(src, NoColorTransform)
  \/ \E drawElements \in DrawElementsOptions : Flush(drawElements)

SpecCoordinates == InitBrush /\ [][NextCoordinates]_vars

\* The quads of images that the brush has recorded, with the region drawn.
ImageCalls ==
  {k \in 1..Len(calls) : calls[k].op = "drawImage" /\ calls[k].src.texture # NoTexture}

\* The quad that the drawImage call of calls[k] recorded.
QuadOf(k) ==
  CHOOSE q \in {draws[p[1]].quads[p[2]] : p \in Submitted}
                 \cup {geometry[i] : i \in 1..Len(geometry)} : q.id = calls[k].id

\* C16 as stated, with "strictly inside" read as strict inequalities: the
\* coordinates n / W of a padded tile have 1 / W < n / W < (W - 1) / W, and
\* likewise vertically.
C16_CoordinatesStrictlyInside ==
  \A k \in ImageCalls :
    \A v \in 1..4 :
      LET c == QuadOf(k).coordinate[v]
      IN /\ 1 < c.x.n /\ c.x.n < c.x.d - 1
         /\ 1 < c.y.n /\ c.y.n < c.y.d - 1

\* C16, amended: the coordinates of a padded tile at (x, y) of a texture of
\* width W and height H are (x + 1) / W and (x + TILE_SIZE - 1) / W
\* horizontally, (y + 1) / H and (y + TILE_SIZE - 1) / H vertically, and so
\* lie in the closed intervals [1 / W, (W - 1) / W] and [1 / H, (H - 1) / H];
\* a tile at an edge of the texture has a coordinate equal to the bound.
C16_CoordinatesInside ==
  \A k \in ImageCalls :
    LET src == calls[k].src
        q == QuadOf(k)
    IN /\ \A v \in 1..4 :
            /\ q.coordinate[v].x.d = src.w /\ q.coordinate[v].y.d = src.h
            /\ 1 <= q.coordinate[v].x.n /\ q.coordinate[v].x.n <= src.w - 1
            /\ 1 <= q.coordinate[v].y.n /\ q.coordinate[v].y.n <= src.h - 1
       /\ {q.coordinate[v].x.n : v \in 1..4} = {src.region.x + 1, src.region.x + TILE_SIZE - 1}
       /\ {q.coordinate[v].y.n : v \in 1..4} = {src.region.y + 1, src.region.y + TILE_SIZE - 1}
       /\ q.coordinate[1].x = q.coordinate[4].x /\ q.coordinate[2].x = q.coordinate[3].x
       /\ q.coordinate[1].y = q.coordinate[2].y /\ q.coordinate[3].y = q.coordinate[4].y

\* A padded tile in the corner of the texture's origin and one at the far
\* end of a wider texture were drawn.
C16_Witness ==
  \E k \in ImageCalls, j \in ImageCalls :
    /\ calls[k].src.region.x = 0 /\ calls[k].src.region.y = 0
    /\ QuadOf(k).coordinate[1].x.n = 1
    /\ calls[j].src.w > TILE_SIZE
    /\ calls[j].src.region.x = calls[j].src.w - TILE_SIZE
    /\ QuadOf(j).coordinate[2].x.n = calls[j].src.w - 1

(***************************************************************************)
(* The frame specification: a tree whose frames lose and regain            *)
(* capabilities, every setter of Frame, the three lazily recomputed        *)
(* caches, and the re-parenting of frames between containers.              *)
(***************************************************************************)
\* Direction.None and Direction.Upward, the directions _setCapability is
\* called with.
Directions == {"None", "Upward"}

RECURSIVE setCapability(_, _, _, _, _)
\* Frame._setCapability: the capabilities of all frames after the call on f.
setCapability(cap, f, c, on, direction) ==
  LET cap2 == IF on THEN [cap EXCEPT ![f] = @ \cup {c}]
              ELSE [cap EXCEPT ![f] = @ \ {c}]
  IN IF direction = "Upward" /\ parent[f] # Null
     THEN setCapability(cap2, parent[f], c, on, direction)
     ELSE cap2

\* The capabilities that some frame lacks.
Removed == UNION {AllowAllWrite \ capability[f] : f \in Frames}

SetCapability(f, c, on, direction) ==
  /\ Count
  /\ on \/ c \in Removed \/ Cardinality(Removed) < MaxRemoved
  /\ capability' = setCapability(capability, f, c, on, direction)
  /\ ret' = NoRet
  /\ UNCHANGED <<parent, isContainer, matrix, flags, concatenatedMatrix, clip,
                 paintVars, visitVars, tileVars, brushVars>>

SetBlendMode(f, value) ==
  LET v == toInt32(value)
  IN /\ Count
     /\ IF checkCapability(f, "AllowBlendModeWrite")
        THEN /\ blendMode' = [blendMode EXCEPT ![f] = v]
             /\ flags' = invalidateParentPaint(flags, f)
             /\ ret' = NoRet
             /\ UNCHANGED <<parent, isContainer, capability, matrix, concatenatedMatrix,
                            clip, filters, colorMatrix, concatenatedColorMatrix,
                            invertedConcatenatedMatrix, mask, visitVars, tileVars,
                            brushVars>>
        ELSE unexpected(f, "AllowBlendModeWrite")

SetFilters(f, value) ==
  /\ Count
  /\ IF checkCapability(f, "AllowFiltersWrite")
     THEN /\ filters' = [filters EXCEPT ![f] = value]
          /\ flags' = invalidateParentPaint(flags, f)
          /\ ret' = NoRet
          /\ UNCHANGED <<parent, isContainer, capability, matrix, concatenatedMatrix,
                         clip, blendMode, colorMatrix, concatenatedColorMatrix,
                         invertedConcatenatedMatrix, mask, visitVars, tileVars,
                         brushVars>>
     ELSE unexpected(f, "AllowFiltersWrite")

SetColorMatrix(f, value) ==
  /\ Count
  /\ IF checkCapability(f, "AllowColorMatrixWrite")
     THEN /\ colorMatrix' = [colorMatrix EXCEPT ![f] = value]
          /\ flags' = invalidateParentPaint(
                        propagateFlagsDown(flags, f, {"InvalidConcatenatedColorMatrix"}),
                        f)
          /\ ret' = NoRet
          /\ UNCHANGED <<parent, isContainer, capability, matrix, concatenatedMatrix,
                         clip, blendMode, filters, concatenatedColorMatrix,
                         invertedConcatenatedMatrix, mask, visitVars, tileVars,
                         brushVars>>
     ELSE unexpected(f, "AllowColorMatrixWrite")

\* Frame.invalidate.
invalidate(fl, f) == setFlags(fl, f, {"Dirty"})

\* A mutant of setMask: the previous mask keeps IsMask.
setMaskKeepsPrevious(fl, f, value) ==
  LET fl2 == IF value # Null THEN invalidate(setFlags(fl, value, {"IsMask"}), value)
             ELSE fl
  IN invalidate(fl2, f)

\* The flags after the mask setter of f has taken value, a frame or Null.
setMask(fl, f, value) ==
  LET old == mask[f]
      fl1 == IF old # Null /\ old # value THEN removeFlags(fl, old, {"IsMask"}) ELSE fl
      fl2 == IF value # Null THEN invalidate(setFlags(fl1, value, {"IsMask"}), value)
             ELSE fl1
  IN invalidate(fl2, f)

SetMask(f, value) ==
  /\ Count
  /\ IF checkCapability(f, "AllowMaskWrite")
     THEN /\ mask' = [mask EXCEPT ![f] = value]
          /\ flags' = setMask(flags, f, value)
          /\ ret' = NoRet
          /\ UNCHANGED <<parent, isContainer, capability, matrix, concatenatedMatrix,
                         clip, blendMode, filters, colorMatrix, concatenatedColorMatrix,
                         invertedConcatenatedMatrix, visitVars, tileVars, brushVars>>
     ELSE unexpected(f, "AllowMaskWrite")

SetClip(f, value) ==
  /\ Count
  /\ IF checkCapability(f, "AllowClipWrite")
     THEN /\ clip' = [clip EXCEPT ![f] = value]
          /\ ret' = NoRet
          /\ UNCHANGED <<parent, isContainer, capability, matrix, flags,
                         concatenatedMatrix, paintVars, visitVars, tileVars, brushVars>>
     ELSE unexpected(f, "AllowClipWrite")

RECURSIVE concatenateColorPath(_, _, _, _, _)
\* The loop of getConcatenatedColorMatrix over path[i], i = path.length - 1
\* .. 0 (here i .. 1).
concatenateColorPath(path, i, m, fl, ccm) ==
  IF i = 0 THEN [flags |-> fl, concatenatedColorMatrix |-> ccm]
  ELSE LET ancestor == path[i]
           m2 == ColorMatrix_multiply(m, colorMatrix[ancestor])
       IN concatenateColorPath(path, i - 1, m2,
            removeFlags(fl, ancestor, {"InvalidConcatenatedColorMatrix"}),
            [ccm EXCEPT ![ancestor] = m2])

\* A mutant of getConcatenatedColorMatrix: the cache is returned as it is.
getConcatenatedColorMatrixCached(fl, ccm, f) ==
  [flags |-> fl, concatenatedColorMatrix |-> ccm,
   value |-> IF parent[f] = Null THEN colorMatrix[f] ELSE ccm[f]]

\* The flags and caches after Frame.getConcatenatedColorMatrix, and the
\* colour matrix it returns.
getConcatenatedColorMatrix(fl, ccm, f) ==
  IF parent[f] = Null
  THEN [flags |-> fl, concatenatedColorMatrix |-> ccm, value |-> colorMatrix[f]]
  ELSE IF hasFlags(fl, f, {"InvalidConcatenatedColorMatrix"})
  THEN LET ancestor == findClosestAncestor(fl, f, {"InvalidConcatenatedColorMatrix"}, FALSE)
           path == getAncestors(f, ancestor)
           m == IF ancestor # Null THEN ccm[ancestor] ELSE ColorMatrix_createIdentity
           r == concatenateColorPath(path, Len(path), m, fl, ccm)
       IN [flags |-> r.flags, concatenatedColorMatrix |-> r.concatenatedColorMatrix,
           value |-> r.concatenatedColorMatrix[f]]
  ELSE [flags |-> fl, concatenatedColorMatrix |-> ccm, value |-> ccm[f]]

GetConcatenatedColorMatrix(f) ==
  LET r == getConcatenatedColorMatrix(flags, concatenatedColorMatrix, f)
  IN /\ Count
     /\ flags' = r.flags
     /\ concatenatedColorMatrix' = r.concatenatedColorMatrix
     /\ ret' = [op |-> "getConcatenatedColorMatrix", frame |-> f, value |-> r.value]
     /\ UNCHANGED <<parent, isContainer, capability, matrix, concatenatedMatrix, clip,
                    blendMode, filters, colorMatrix, invertedConcatenatedMatrix, mask,
                    visitVars, tileVars, brushVars>>

\* Matrix.inverse, kept as the matrix it inverts: <<m>> is the inverse of m.
inverse(m) == <<m>>

\* A mutant of getInvertedConcatenatedMatrix: the frame's own matrix is
\* inverted, and the concatenated matrix is not asked for.
getInvertedConcatenatedMatrixOfLocal(fl, cm, icm, f) ==
  IF hasFlags(fl, f, {"InvalidInvertedConcatenatedMatrix"})
  THEN LET icm2 == [icm EXCEPT ![f] = inverse(matrix[f])]
       IN [flags |-> removeFlags(fl, f, {"InvalidInvertedConcatenatedMatrix"}),
           concatenatedMatrix |-> cm,
           invertedConcatenatedMatrix |-> icm2, value |-> icm2[f]]
  ELSE [flags |-> fl, concatenatedMatrix |-> cm, invertedConcatenatedMatrix |-> icm,
        value |-> icm[f]]

\* The flags and caches after Frame._getInvertedConcatenatedMatrix, and the
\* matrix it returns.
getInvertedConcatenatedMatrix(fl, cm, icm, f) ==
  IF hasFlags(fl, f, {"InvalidInvertedConcatenatedMatrix"})
  THEN LET r == getConcatenatedMatrix(fl, cm, f)
           icm2 == [icm EXCEPT ![f] = inverse(r.value)]
       IN [flags |-> removeFlags(r.flags, f, {"InvalidInvertedConcatenatedMatrix"}),
           concatenatedMatrix |-> r.concatenatedMatrix,
           invertedConcatenatedMatrix |-> icm2, value |-> icm2[f]]
  ELSE [flags |-> fl, concatenatedMatrix |-> cm, invertedConcatenatedMatrix |-> icm,
        value |-> icm[f]]

GetInvertedConcatenatedMatrix(f) ==
  LET r == getInvertedConcatenatedMatrix(flags, concatenatedMatrix,
                                         invertedConcatenatedMatrix, f)
  IN /\ Count
     /\ flags' = r.flags
     /\ concatenatedMatrix' = r.concatenatedMatrix
     /\ invertedConcatenatedMatrix' = r.invertedConcatenatedMatrix
     /\ ret' = [op |-> "getInvertedConcatenatedMatrix", frame |-> f, value |-> r.value]
     /\ UNCHANGED <<parent, isContainer, capability, matrix, clip, blendMode, filters,
                    colorMatrix, concatenatedColorMatrix, mask, visitVars, tileVars,
                    brushVars>>

\* A mutant of isAncestor: only the frame itself counts as its ancestor.
isAncestorSelfOnly(this, child) == child = this

RECURSIVE isAncestor(_, _)
\* Frame._isAncestor: whether this is child or one of its ancestors.
isAncestor(this, child) ==
  IF child = Null THEN FALSE
  ELSE IF child = this THEN TRUE
  ELSE isAncestor(this, parent[child])

\* FrameContainer.addChild: child becomes a child of container, which takes
\* it from the container that had it.  A child that is the container or one
\* of its ancestors would close a cycle, and is rejected.
AddChild(container, child) ==
  /\ Count
  /\ isContainer[container]
  /\ IF ~checkCapability(container, "AllowChildrenWrite")
     THEN unexpected(container, "AllowChildrenWrite")
     ELSE IF isAncestor(child, container)
     THEN /\ ret' = [op |-> "rejected", frame |-> container, child |-> child]
          /\ UNCHANGED <<parent, isContainer, capability, matrix, flags,
                         concatenatedMatrix, clip, paintVars, visitVars, tileVars,
                         brushVars>>
     ELSE /\ parent' = [parent EXCEPT ![child] = container]
          /\ flags' =
               LET down == propagateFlagsDown(flags, child,
                             {"InvalidConcatenatedMatrix",
                              "InvalidInvertedConcatenatedMatrix"})
               IN propagateFlagsUp(invalidateBounds(down, container), container,
                                   {"InvalidPaint"})
          /\ ret' = NoRet
          /\ UNCHANGED <<isContainer, capability, matrix, concatenatedMatrix, clip,
                         paintVars, visitVars, tileVars, brushVars>>

\* FrameContainer.removeChild: child leaves container and becomes a root.
RemoveChild(container, child) ==
  /\ Count
  /\ parent[child] = container
  /\ IF ~checkCapability(container, "AllowChildrenWrite")
     THEN unexpected(container, "AllowChildrenWrite")
     ELSE /\ parent' = [parent EXCEPT ![child] = Null]
          /\ flags' = propagateFlagsDown(flags, child,
                        {"InvalidConcatenatedMatrix",
                         "InvalidInvertedConcatenatedMatrix"})
          /\ ret' = NoRet
          /\ UNCHANGED <<isContainer, capability, matrix, concatenatedMatrix, clip,
                         paintVars, visitVars, tileVars, brushVars>>

\* The capabilities taken from and given back to frames.
Capabilities == AllowAllWrite

InitFrame == InitTransform

\* One more call of the frame specification, while the run is within its
\* bound.
FrameCount == ops < MaxFrameOps

NextFrame ==
  \/ \E f \in Frames, c \in Capabilities, on \in BOOLEAN, direction \in Directions :
       FrameCount /\ SetCapability(f, c, on, direction)
  \/ \E f \in Frames, value \in XValues : FrameCount /\ SetX(f, value)
  \/ \E f \in Frames, value \in YValues : FrameCount /\ SetY(f, value)
  \/ \E f \in Frames, value \in MatrixValues : FrameCount /\ SetMatrix(f, value)
  \/ \E f \in Frames, value \in BlendModeValues : FrameCount /\ SetBlendMode(f, value)
  \/ \E f \in Frames, value \in FiltersValues : FrameCount /\ SetFilters(f, value)
  \/ \E f \in Frames, value \in ColorMatrixValues : FrameCount /\ SetColorMatrix(f, value)
  \/ \E f \in Frames, value \in Frames \cup {Null} : FrameCount /\ SetMask(f, value)
  \/ \E f \in Frames, value \in ClipCounts : FrameCount /\ SetClip(f, value)
  \/ \E f \in Frames : FrameCount /\ GetConcatenatedMatrix(f)
  \/ \E f \in Frames : FrameCount /\ GetInvertedConcatenatedMatrix(f)
  \/ \E f \in Frames : FrameCount /\ GetConcatenatedColorMatrix(f)
  \/ \E container \in Frames, child \in Frames : FrameCount /\ AddChild(container, child)
  \/ \E container \in Frames, child \in Frames : FrameCount /\ RemoveChild(container, child)

SpecFrame == InitFrame /\ [][NextFrame]_vars

\* What a setter of f that needs capability c does when f lacks it: its caller
\* sees the fault, and no frame's local values or flags have changed.
FaultsUntouched(f, c) ==
  c \notin capability[f] =>
    /\ ret' = [op |-> "unexpected", frame |-> f, capability |-> c]
    /\ UNCHANGED <<matrix, clip, blendMode, filters, colorMatrix, mask, flags,
                   concatenatedMatrix, concatenatedColorMatrix,
                   invertedConcatenatedMatrix, capability, parent>>

\* C18: each of the setters x, y, matrix, blendMode, filters, colorMatrix,
\* mask and clip called on a frame that lacks the capability of that property
\* faults, and leaves the frame's local values, its flags and the flags of
\* every other frame as they were.
C18_SetterWithoutCapabilityFaults ==
  [][\A f \in Frames :
       /\ \A value \in XValues :
            SetX(f, value) => FaultsUntouched(f, "AllowMatrixWrite")
       /\ \A value \in YValues :
            SetY(f, value) => FaultsUntouched(f, "AllowMatrixWrite")
       /\ \A value \in MatrixValues :
            SetMatrix(f, value) => FaultsUntouched(f, "AllowMatrixWrite")
       /\ \A value \in BlendModeValues :
            SetBlendMode(f, value) => FaultsUntouched(f, "AllowBlendModeWrite")
       /\ \A value \in FiltersValues :
            SetFilters(f, value) => FaultsUntouched(f, "AllowFiltersWrite")
       /\ \A value \in ColorMatrixValues :
            SetColorMatrix(f, value) => FaultsUntouched(f, "AllowColorMatrixWrite")
       /\ \A value \in Frames \cup {Null} :
            SetMask(f, value) => FaultsUntouched(f, "AllowMaskWrite")
       /\ \A value \in ClipCounts :
            SetClip(f, value) => FaultsUntouched(f, "AllowClipWrite")]_vars

\* A container with a child has lost its AllowColorMatrixWrite capability,
\* and its colorMatrix setter has faulted.
C18_Witness ==
  /\ ret = [op |-> "unexpected", frame |-> 0, capability |-> "AllowColorMatrixWrite"]
  /\ "AllowColorMatrixWrite" \notin capability[0]
  /\ \E g \in Frames : parent[g] = 0

RECURSIVE ChainEnds(_, _)
\* Whether the parent chain of node reaches a root within steps steps.
ChainEnds(node, steps) ==
  IF node = Null THEN TRUE
  ELSE IF steps = 0 THEN FALSE
  ELSE ChainEnds(parent[node], steps - 1)

Cleared(n, flag) == flag \in flags[n] /\ flag \notin flags'[n]

\* C20: a step clears InvalidConcatenatedMatrix,
\* InvalidInvertedConcatenatedMatrix or InvalidConcatenatedColorMatrix on a
\* frame only if it is the recomputation of that cache, called on the frame or
\* below it: no setter, capability change or re-parenting clears one.
C20_InvalidFlagsStayUntilRecomputed ==
  [][\A n \in Frames :
       /\ Cleared(n, "InvalidConcatenatedMatrix") =>
            /\ ret'.op \in {"getConcatenatedMatrix", "getInvertedConcatenatedMatrix"}
            /\ n \in AncestorsIn(parent, ret'.frame)
       /\ Cleared(n, "InvalidInvertedConcatenatedMatrix") =>
            /\ ret'.op = "getInvertedConcatenatedMatrix"
            /\ n = ret'.frame
       /\ Cleared(n, "InvalidConcatenatedColorMatrix") =>
            /\ ret'.op = "getConcatenatedColorMatrix"
            /\ n \in AncestorsIn(parent, ret'.frame)]_vars

\* The inverted concatenated matrix of a child was computed while the
\* matrices were the identity; the x, y or matrix setter of its parent has
\* flagged it since, the colorMatrix setter of the child has been called, and
\* the flag is on the child.
C20_Witness ==
  \E n \in Frames :
    /\ parent[n] # Null
    /\ invertedConcatenatedMatrix[n] = inverse(createIdentity)
    /\ matrix[parent[n]] # createIdentity
    /\ colorMatrix[n] # ColorMatrix_createIdentity
    /\ "InvalidInvertedConcatenatedMatrix" \in flags[n]

----------------------------------------------------------------------------
\* The texture atlas.

MaxAtlasCalls == 5

\* RegionAllocator.Region: a rectangle the allocator handed out; id tells
\* two region objects with the same rectangle apart.
Region(id, x, y, w, h) == [id |-> id, x |-> x, y |-> y, w |-> w, h |-> h]

\* new RegionAllocator.Grid(w, h, size) and new RegionAllocator.Compact(w, h):
\* an allocator that has handed out nothing.
RegionAllocator_Grid(w, h, size) ==
  [kind |-> "Grid", w |-> w, h |-> h, size |-> size, regions |-> {}]

RegionAllocator_Compact(w, h) ==
  [kind |-> "Compact", w |-> w, h |-> h, size |-> 0, regions |-> {}]

intersects(a, b) ==
  /\ a.x < b.x + b.w
  /\ b.x < a.x + a.w
  /\ a.y < b.y + b.h
  /\ b.y < a.y + a.h

\* Grid.allocate: the free cell of the lowest index, for a request that fits
\* a cell.  The result is the set holding the region, or the empty set.
Grid_allocate(this, id, w, h) ==
  LET gridColumns == this.w \div this.size
      gridRows == this.h \div this.size
      cellX(index) == (index % gridColumns) * this.size
      cellY(index) == (index \div gridColumns) * this.size
      free == {index \in 0..(gridColumns * gridRows - 1) :
                 \A r \in this.regions : r.x # cellX(index) \/ r.y # cellY(index)}
  IN IF w > this.size \/ h > this.size \/ free = {} THEN {}
     ELSE {Region(id, cellX(SetMin(free)), cellY(SetMin(free)), w, h)}

\* Compact.allocate: the leftmost place along the top edge where the request
\* fits beside the regions that are allocated.
Compact_allocate(this, id, w, h) ==
  LET places == {0} \cup {r.x + r.w : r \in this.regions}
      fits == {x \in places :
                 /\ x + w <= this.w
                 /\ h <= this.h
                 /\ \A r \in this.regions : ~intersects(Region(id, x, 0, w, h), r)}
  IN IF fits = {} THEN {} ELSE {Region(id, SetMin(fits), 0, w, h)}

allocate(this, id, w, h) ==
  IF this.kind = "Grid" THEN Grid_allocate(this, id, w, h)
  ELSE Compact_allocate(this, id, w, h)

\* IRegionAllocator.free
free(this, region) == [this EXCEPT !.regions = @ \ {region}]

WebGLTextureAtlas_resetKeepsAllocator(a) ==
  IF DOMAIN a.regionAllocator = {}
  THEN [a EXCEPT !.regionAllocator = RegionAllocator_Grid(a.w, a.h, TILE_SIZE)]
  ELSE a

\* WebGLTextureAtlas.reset
WebGLTextureAtlas_reset(a) ==
  [a EXCEPT !.regionAllocator =
     IF a.compact THEN RegionAllocator_Compact(a.w, a.h)
     ELSE RegionAllocator_Grid(a.w, a.h, TILE_SIZE)]

\* new WebGLTextureAtlas(context, texture, w, h, compact)
WebGLTextureAtlas(w, h, compact) ==
  WebGLTextureAtlas_reset([w |-> w, h |-> h, compact |-> compact, regionAllocator |-> <<>>])

\* WebGLTextureAtlas.add: the atlas after the call and what the call returns,
\* the set holding the region, or the empty set for the undefined of a
\* failed allocation.
WebGLTextureAtlas_add(a, id, w, h) ==
  LET region == allocate(a.regionAllocator, id, w, h)
  IN IF region = {} THEN [atlas |-> a, region |-> {}]
     ELSE [atlas |-> [a EXCEPT !.regionAllocator.regions = @ \cup region],
           region |-> region]

\* WebGLTextureAtlas.remove
WebGLTextureAtlas_remove(a, region) == [a EXCEPT !.regionAllocator = free(@, region)]

AtlasCount == Len(atlasCalls) < MaxAtlasCalls

AtlasAdd(w, h) ==
  /\ AtlasCount
  /\ \E r \in {WebGLTextureAtlas_add(atlas, Len(atlasCalls) + 1, w, h)} :
       /\ atlas' = r.atlas
       /\ atlasCalls' = Append(atlasCalls, [op |-> "add", region |-> r.region])
  /\ UNCHANGED <<frameVars, visitVars, brushVars, source, cacheLevels, tileRegion,
                 regionTexture, atlasSize, capacity, log>>

\* The callers of remove pass a region the allocator of the atlas holds.
AtlasRemove(region) ==
  /\ AtlasCount
  /\ atlas' = WebGLTextureAtlas_remove(atlas, region)
  /\ atlasCalls' = Append(atlasCalls, [op |-> "remove", region |-> {region}])
  /\ UNCHANGED <<frameVars, visitVars, brushVars, source, cacheLevels, tileRegion,
                 regionTexture, atlasSize, capacity, log>>

AtlasReset ==
  /\ AtlasCount
  /\ atlas' = WebGLTextureAtlas_reset(atlas)
  /\ atlasCalls' = Append(atlasCalls, [op |-> "reset", region |-> {}])
  /\ UNCHANGED <<frameVars, visitVars, brushVars, source, cacheLevels, tileRegion,
                 regionTexture, atlasSize, capacity, log>>

AtlasBounds == {<<512, 256>>, <<512, 512>>}

RegionSizes == {<<256, 256>>, <<64, 128>>, <<300, 100>>}

InitAtlas ==
  /\ Constructed([f \in {0} |-> Null])
  /\ NoVisit
  /\ NewBrush
  /\ source = NoSource
  /\ cacheLevels = <<>>
  /\ tileRegion = <<>>
  /\ regionTexture = <<>>
  /\ atlasSize = 0
  /\ capacity = 0
  /\ log = <<>>
  /\ \E size \in AtlasBounds, compact \in BOOLEAN :
       atlas = WebGLTextureAtlas(size[1], size[2], compact)
  /\ atlasCalls = <<>>

NextAtlas ==
  \/ \E size \in RegionSizes : AtlasAdd(size[1], size[2])
  \/ \E region \in atlas.regionAllocator.regions : AtlasRemove(region)
  \/ AtlasReset

SpecAtlas == InitAtlas /\ [][NextAtlas]_vars

\* The regions the atlas handed out and neither removed nor gave up with
\* its allocator.
LiveRegions == atlas.regionAllocator.regions

\* The region the i-th call handed out, if it handed out one.
HandedOut(i) ==
  /\ atlasCalls[i].op = "add"
  /\ atlasCalls[i].region # {}

----------------------------------------------------------------------------
\* Invalidation after the consumer cleared flags.

\* Frame.toggleFlags
toggleFlags(fl, f, fs, on) ==
  IF on THEN [fl EXCEPT ![f] = @ \cup fs] ELSE [fl EXCEPT ![f] = @ \ fs]

ToggleFlags(f, fs, on) ==
  /\ Count
  /\ flags' = toggleFlags(flags, f, fs, on)
  /\ ret' = NoRet
  /\ UNCHANGED <<parent, isContainer, capability, matrix, concatenatedMatrix, clip,
                 paintVars, visitVars, tileVars, brushVars>>

MaxInvalidateOps == 3

\* One more call of the invalidation specification, while the run is within
\* its bound.
InvalidateCount == ops < MaxInvalidateOps

\* The flags the consumer of a frame clears when it has acted on them.
ConsumedFlags == {{"InvalidPaint", "InvalidBounds"}}

NextInvalidate ==
  \/ \E f \in Frames, fs \in ConsumedFlags : InvalidateCount /\ ToggleFlags(f, fs, FALSE)
  \/ \E f \in Frames, value \in XValues : InvalidateCount /\ SetX(f, value)
  \/ \E f \in Frames, value \in YValues : InvalidateCount /\ SetY(f, value)
  \/ \E f \in Frames, value \in MatrixValues : InvalidateCount /\ SetMatrix(f, value)
  \/ \E f \in Frames, value \in BlendModeValues : InvalidateCount /\ SetBlendMode(f, value)
  \/ \E f \in Frames, value \in FiltersValues : InvalidateCount /\ SetFilters(f, value)
  \/ \E f \in Frames, value \in ColorMatrixValues :
       InvalidateCount /\ SetColorMatrix(f, value)

SpecInvalidate == InitFrame /\ [][NextInvalidate]_vars

\* A call of the x, y or matrix setter on f.
PositionSetter(f) ==
  \/ \E value \in XValues : SetX(f, value)
  \/ \E value \in YValues : SetY(f, value)
  \/ \E value \in MatrixValues : SetMatrix(f, value)

\* A call of the blendMode, filters or colorMatrix setter on f.
PaintSetter(f) ==
  \/ \E value \in BlendModeValues : SetBlendMode(f, value)
  \/ \E value \in FiltersValues : SetFilters(f, value)
  \/ \E value \in ColorMatrixValues : SetColorMatrix(f, value)

\* Above f, a frame that has flag has it on its parent too.
UpwardClosed(f, flag) ==
  \A a \in StrictAncestors(f) :
    (flag \in flags[a] /\ parent[a] # Null) => flag \in flags[parent[a]]

\* Every strict ancestor of f has flag after the step.
ReachesRoot(f, flag) == \A a \in StrictAncestors(f) : flag \in flags'[a]

\* C22, as stated: after a call of the x, y or matrix setter every strict
\* ancestor has InvalidBounds and InvalidPaint, and after a call of the
\* blendMode, filters or colorMatrix setter every strict ancestor has
\* InvalidPaint, from every reachable flag state.
C22_Original ==
  [][\A f \in Frames :
       /\ PositionSetter(f) =>
            ReachesRoot(f, "InvalidBounds") /\ ReachesRoot(f, "InvalidPaint")
       /\ PaintSetter(f) => ReachesRoot(f, "InvalidPaint")]_vars

\* C22, amended: the same, from the flag states in which no strict ancestor
\* has the flag while its parent lacks it; an ancestor that has the flag
\* already ends the propagation.
C22_SettersInvalidateAncestors ==
  [][\A f \in Frames :
       /\ PositionSetter(f) =>
            /\ UpwardClosed(f, "InvalidBounds") => ReachesRoot(f, "InvalidBounds")
            /\ UpwardClosed(f, "InvalidPaint") => ReachesRoot(f, "InvalidPaint")
       /\ PaintSetter(f) =>
            (UpwardClosed(f, "InvalidPaint") => ReachesRoot(f, "InvalidPaint"))]_vars

\* The consumer cleared both flags on the two ancestors of a frame, and the
\* blendMode setter of the frame set InvalidPaint on both again.
C22_Witness ==
  \E f \in Frames :
    /\ blendMode[f] \in BlendModeValues
    /\ Cardinality(StrictAncestors(f)) = 2
    /\ \A a \in StrictAncestors(f) :
         "InvalidPaint" \in flags[a] /\ "InvalidBounds" \notin flags[a]

----------------------------------------------------------------------------
\* C23: for a source that is not scalable the level getTiles selects is
\* never above the native resolution (level <= 0), for every transform
\* scale, whether or not the source is dynamic.
C23_NonScalableNeverAboveNative ==
  \A i \in 1..Len(log) :
    (log[i].op = "getTiles" /\ ~source.isScalable) => log[i].level <= 0

\* A source that is not scalable for which the scale of one call asks for
\* a level above the native resolution, and which fits the scratch canvas
\* at that level when it is dynamic.
C23_Witness ==
  \E i \in 1..Len(log) :
    /\ log[i].op = "getTiles"
    /\ ~source.isScalable
    /\ levelOfScale(log[i].halfLevel) > 0
    /\ selectLevelScalesAll(source, log[i].halfLevel).level > 0
    /\ log[i].level = 0

----------------------------------------------------------------------------
\* C24: assigning value to the mask of a frame that has AllowMaskWrite
\* clears IsMask on the previous mask when that is another frame than
\* value, sets IsMask and Dirty on value when it is not null, and sets Dirty
\* on the frame; assigning null clears IsMask on the previous mask and
\* marks no frame but the assigned one Dirty.
C24_MaskAssignment ==
  [][\A f \in Frames, value \in Frames \cup {Null} :
       (SetMask(f, value) /\ checkCapability(f, "AllowMaskWrite")) =>
         /\ mask'[f] = value
         /\ (mask[f] # Null /\ mask[f] # value) => "IsMask" \notin flags'[mask[f]]
         /\ value # Null => {"IsMask", "Dirty"} \subseteq flags'[value]
         /\ "Dirty" \in flags'[f]
         /\ value = Null =>
              \A g \in Frames \ {f} : "Dirty" \in flags'[g] => "Dirty" \in flags[g]]_vars

\* A frame whose mask was reassigned from one frame to another: the former
\* mask is Dirty without IsMask, the new one has both.
C24_Witness ==
  \E f \in Frames, m \in Frames, p \in Frames :
    /\ f # m /\ f # p /\ m # p
    /\ mask[f] = m
    /\ {"IsMask", "Dirty"} \subseteq flags[m]
    /\ "Dirty" \in flags[f]
    /\ "Dirty" \in flags[p] /\ "IsMask" \notin flags[p]
    /\ mask[p] = Null /\ mask[m] = Null

----------------------------------------------------------------------------
\* The flags the visitor sees.

\* A tree in which at most MaxClips frames below the root clip siblings and
\* at most one frame is marked IgnoreQuery.
InitFlags ==
  \E p \in UNION {Trees(n) : n \in 1..MaxVisitNodes} :
    \E clipping \in SUBSET (DOMAIN p \ {0}), ignored \in SUBSET DOMAIN p :
      /\ Cardinality(clipping) <= MaxClips
      /\ Cardinality(ignored) <= 1
      /\ \E cv \in [clipping -> ClipCounts] : ConstructedWith(p, ignored, cv)

SpecFlags == InitFlags /\ [][NextVisit]_vars

\* The frames from a, an ancestor of f or f itself, down to f.
PathBetween(a, f) == {b \in AncestorsIn(parent, f) : a \in AncestorsIn(parent, b)}

\* The own flags of the frames from a down to f, with the EnterClip that a
\* traversal with clip processing attaches to a frame below a whose clip
\* count is >= 0.
Accumulated(a, f) ==
  UNION {flags[b] : b \in PathBetween(a, f)}
    \cup (IF ClipProcessing /\ \E b \in PathBetween(a, f) \ {a} : clip[b] >= 0
          THEN {"EnterClip"} ELSE {})

\* C25, as stated: the flags passed to the visitor for every entry, child
\* entries and leave-clip entries alike, are the flags given to visit, the
\* own flags of the frames from the traversal root down to the frame, and
\* the EnterClip attached on the way (a leave-clip entry has LeaveClip
\* besides).
C25_Original ==
  call.op = "visit" =>
    \A i \in 1..Len(visited) :
      visited[i].flags \ {"LeaveClip"} = call.flags \cup Accumulated(0, visited[i].frame)

\* C25, amended: this holds of the entries of the traversal root and of the
\* children pushed with their container's flags; a leave-clip entry is
\* visited with LeaveClip and the own flags of its frame only, and the
\* entries pushed below it accumulate from there.
C25_VisitorFlags ==
  call.op = "visit" =>
    \A i \in 1..Len(visited) :
      LET e == visited[i]
      IN IF "LeaveClip" \notin e.flags
         THEN e.flags = call.flags \cup Accumulated(0, e.frame)
         ELSE \E a \in AncestorsIn(parent, e.frame) \ {0} :
                /\ ClipProcessing
                /\ clip[a] >= 0
                /\ e.flags = {"LeaveClip"} \cup Accumulated(a, e.frame)

\* A traversal with clip processing that was given Dirty: a child below a
\* frame marked IgnoreQuery is visited with Dirty and IgnoreQuery, and the
\* leave-clip entry of a container and the child pushed below that entry
\* are visited with LeaveClip and without Dirty.
C25_Witness ==
  /\ call.op = "visit"
  /\ call.flags = {"Dirty"}
  /\ \E i, j, k \in 1..Len(visited) :
       /\ i < j
       /\ "LeaveClip" \in visited[i].flags /\ "Dirty" \notin visited[i].flags
       /\ parent[visited[j].frame] = visited[i].frame
       /\ "LeaveClip" \in visited[j].flags /\ "Dirty" \notin visited[j].flags
       /\ "LeaveClip" \notin visited[k].flags
       /\ {"Dirty", "IgnoreQuery"} \subseteq visited[k].flags
       /\ "IgnoreQuery" \notin flags[visited[k].frame]

----------------------------------------------------------------------------
\* The order of the entries of a container under clip processing.

\* The depth of the stack below the entry visited at position q.
Depth(q) == Len(visited[q].pending)

\* The positions after p at which the entries that the visit at p pushed,
\* and the entries pushed below those, are visited.
Span(p) ==
  {q \in (p + 1)..Len(visited) : \A r \in (p + 1)..q : Depth(r) >= Depth(p)}

\* The positions at which the entries that the visit at p pushed itself are
\* visited, in order: each lies lower on the stack than all entries of the
\* span visited before it; and the position at which the span ends.
Direct(p) ==
  LET span == Span(p)
      low == {q \in span : \A r \in (p + 1)..(q - 1) : Depth(r) > Depth(q)}
  IN [positions |-> SortedSeq(low),
      end |-> IF span = {} THEN p + 1 ELSE SetMax(span) + 1]

\* The traversals with clip processing, which are given a transform.
NextClips ==
  \/ \E fs \in FlagsArguments,
        visitorFlags \in {vf \in VisitorFlagsArguments : "Clips" \in vf} :
       Visit(createIdentity, fs, visitorFlags)
  \/ \E result \in VisitorAnswers : VisitorAnswer(result)

SpecClips == InitVisit /\ [][NextClips]_vars

RECURSIVE EntriesFrom(_, _)
\* Child i of container c followed by the leave-clip entries registered for
\* child index i, then the same for the child indices above i.
EntriesFrom(c, i) ==
  IF i > Len(children(c)) THEN <<>>
  ELSE LET events == Reverse(gatherLeaveClipEvents(c, i))
       IN <<[frame |-> children(c)[i], leave |-> FALSE]>>
          \o [k \in 1..Len(events) |-> [frame |-> events[k], leave |-> TRUE]]
          \o EntriesFrom(c, i + 1)

\* C26: in a traversal with clip processing the children of a container are
\* visited in increasing index order, the leave-clip entries registered for
\* child index i after child i and its whole subtree and before child i + 1,
\* and a child whose clip count is >= 0 with the EnterClip flag.
C26_ClipOrder ==
  (call.op = "visit" /\ ClipProcessing) =>
    \A p \in 1..Len(visited) :
      (visited[p].result = "Continue" /\ isContainer[visited[p].frame]) =>
        LET d == Direct(p)
            direct == d.positions
            entries == EntriesFrom(visited[p].frame, 1)
            end(k) == IF k < Len(direct) THEN direct[k + 1] ELSE d.end
            below(k) == {visited[r].frame : r \in (direct[k] + 1)..(end(k) - 1)}
        IN /\ Len(direct) <= Len(entries)
           /\ (pc = "done" /\ visited[Len(visited)].result # "Stop")
                => Len(direct) = Len(entries)
           /\ \A k \in 1..Len(direct) :
                LET e == visited[direct[k]]
                IN /\ e.frame = entries[k].frame
                   /\ entries[k].leave => e.flags = {"LeaveClip"} \cup flags[e.frame]
                   /\ ~entries[k].leave =>
                        /\ visited[p].flags \subseteq e.flags
                        /\ clip[e.frame] >= 0 => "EnterClip" \in e.flags
                        /\ below(k) \subseteq Descendants(e.frame) \ {e.frame}
                        /\ (AllContinue /\ k < Len(direct))
                             => below(k) = Descendants(e.frame) \ {e.frame}

\* A finished traversal of a container whose first child, a container with
\* a child of its own, clips no sibling (clip count 0): the child, its own
\* child, its leave-clip entry and the next child are visited in this order.
C26_Witness ==
  /\ ClipTraversalDone
  /\ \E p \in 1..Len(visited) :
       LET direct == Direct(p).positions
       IN /\ Len(direct) >= 3
          /\ clip[visited[direct[1]].frame] = 0
          /\ "EnterClip" \in visited[direct[1]].flags
          /\ direct[2] > direct[1] + 1
          /\ visited[direct[2]].frame = visited[direct[1]].frame
          /\ "LeaveClip" \in visited[direct[2]].flags
          /\ visited[direct[3]].frame # visited[direct[1]].frame

----------------------------------------------------------------------------
\* Fetches of dynamic sources.

\* A fetch that returned tiles.
ReturnedTiles(i) == i \in Fetches /\ log[i].tiles # <<>>

\* C27, as stated: every fetchTiles call on a dynamic source puts every
\* returned tile in the miss batch and renders the source again.
C27_Original ==
  \A i \in 1..Len(log) :
    (ReturnedTiles(i) /\ source.isDynamic) =>
      /\ log[i].uncachedTiles = log[i].tiles
      /\ log[i].renders >= 1

\* C27, amended: every fetchTiles call on a dynamic source that is flagged
\* invalid does so; on a dynamic source that is not, a fetch that finds its
\* tiles bound to regions with a texture leaves the miss batch empty and
\* does not render the source.
C27_InvalidDynamicAlwaysMisses ==
  /\ \A i \in 1..Len(log) :
       (ReturnedTiles(i) /\ source.isDynamic /\ source.isInvalid) =>
         /\ log[i].uncachedTiles = log[i].tiles
         /\ log[i].renders >= 1
  /\ \A i \in 1..Len(log), j \in 1..Len(log) :
       (/\ ReturnedTiles(i) /\ ReturnedTiles(j) /\ i < j
        /\ source.isDynamic /\ ~source.isInvalid
        /\ log[j].tiles = log[i].tiles
        /\ CachedTheTiles(i)
        /\ ~EvictedBetween(i, j))
         => /\ log[j].uncachedTiles = <<>>
            /\ log[j].renders = 0

\* A second fetch of a dynamic source that is flagged invalid: its tile is
\* in the miss batch again and keeps the region of the first fetch.
C27_Witness ==
  \E i \in 1..Len(log), j \in 1..Len(log) :
    /\ ReturnedTiles(i) /\ ReturnedTiles(j) /\ i < j
    /\ source.isDynamic /\ source.isInvalid
    /\ CachedTheTiles(i)
    /\ ~EvictedBetween(i, j)
    /\ log[j].tiles = log[i].tiles
    /\ log[j].uncachedTiles = log[j].tiles
    /\ log[j].regions = log[i].regions
    /\ log[j].renders = 1

----------------------------------------------------------------------------
\* Tiles without a region that has a texture.

\* Whether tile is bound to a region with a texture when the fetch of log
\* entry j begins: an earlier fetch left it so and no eviction followed.
BoundBefore(tile, j) ==
  \E i \in Fetches :
    /\ i < j
    /\ ~EvictedBetween(i, j)
    /\ \E k \in 1..Len(log[i].tiles) : log[i].tiles[k] = tile /\ log[i].live[k]

\* C28: a tile that is not bound to a region with a texture is in the miss
\* batch of every fetch that returns it, and a fetch that ends with room
\* left in the atlas has bound every tile it returns to a region with a
\* texture.
C28_UnboundTilesAreRebound ==
  \A j \in Fetches :
    ~log[j].fault =>
      /\ \A k \in 1..Len(log[j].tiles) :
           ~BoundBefore(log[j].tiles[k], j) => log[j].tiles[k] \in MissBatch(j)
      /\ (j = Len(log) /\ capacity > 0) =>
           \A k \in 1..Len(log[j].tiles) : log[j].live[k]

----------------------------------------------------------------------------
\* The textures and the colour transform of a batch.

\* C29: after any sequence of drawImage, fillRectangle, flush and reset
\* calls the brush has bound at most 8 textures, and none of them twice.
C29_BoundTexturesDistinct ==
  /\ Len(textures) <= MaxSamplers
  /\ \A i \in 1..Len(textures), j \in 1..Len(textures) :
       textures[i] = textures[j] => i = j

\* The brush has bound 8 textures, and the last call drew one of them again.
C29_Witness ==
  /\ Len(textures) = MaxSamplers
  /\ calls # <<>>
  /\ calls[Len(calls)].op = "drawImage"
  /\ calls[Len(calls)].src.texture # NoTexture
  /\ calls[Len(calls)].bound = textures
  /\ indexOf(textures, calls[Len(calls)].src.texture) >= 0

\* The quads of flush d that were recorded with a colour transform.
Transformed(d) ==
  {i \in 1..Len(draws[d].quads) : draws[d].quads[i].kind = "FillTextureWithColorMatrix"}

\* C30: at every flush, the quads of the batch that were recorded with a
\* colour transform were recorded with the one the flush uploads as the
\* colour matrix: no batch holds quads of two colour transforms.
C30_OneColorTransformPerBatch ==
  \A d \in 1..Len(draws) :
    \A i \in Transformed(d) :
      /\ draws[d].colorTransform # NoColorTransform
      /\ calls[draws[d].quads[i].id].colorTransform = draws[d].colorTransform

\* Two flushes with different colour transforms, the second of a batch that
\* also holds a quad recorded without one.
C30_Witness ==
  \E d \in 1..Len(draws), e \in 1..Len(draws) :
    /\ d < e
    /\ Transformed(d) # {} /\ Transformed(e) # {}
    /\ draws[d].colorTransform # draws[e].colorTransform
    /\ \E i \in 1..Len(draws[e].quads) : draws[e].quads[i].kind = "FillTexture"
(***************************************************************************)
(* drawImage of a tile that has no texture: render passes whose tiles are  *)
(* live regions, null regions and regions whose texture is gone, each with *)
(* any colour transform.                                                   *)
(***************************************************************************)
MaxMissingCalls == 5

MissingCount == Len(calls) < MaxMissingCalls

MissingArguments ==
  {BrushRegion(UnboundTexture), NullRegion, BrushRegion(NoTexture)} \X ColorTransforms

NextMissing ==
  \/ MissingCount /\ Reset
  \/ \E args \in MissingArguments : MissingCount /\ DrawImage(args[1], args[2])
  \/ \E drawElements \in DrawElementsOptions : MissingCount /\ Flush(drawElements)

SpecMissing == InitBrush /\ [][NextMissing]_vars

\* The regions of the claim: no region, or a region whose texture is missing.
Unpacked(src) == src = NullRegion \/ src.texture = NoTexture

\* C31: drawImage of a null region or of a region whose texture is missing
\* records no quad, flushes nothing, leaves the bound textures, the colour
\* transform of the batch and the geometry as they were, and returns true,
\* which is what render takes to go on with the next tile.
C31_MissingRegionIsSkipped ==
  [][\A args \in MissingArguments :
       (Unpacked(args[1]) /\ DrawImage(args[1], args[2]))
         => /\ UNCHANGED <<textures, colorTransform, geometry, draws>>
            /\ calls'[Len(calls')].flushes = 0
            /\ calls'[Len(calls')].returned]_vars

\* A batch with a quad, a texture and a colour transform was offered a null
\* region and a region without texture, one of them with another colour
\* transform than the batch's, and the pass went on with a live tile.
C31_Witness ==
  /\ drawing
  /\ \E i \in 1..Len(calls), j \in 1..Len(calls), k \in 1..Len(calls) :
       /\ calls[i].op = "drawImage" /\ calls[i].src = NullRegion
       /\ calls[j].op = "drawImage" /\ calls[j].src = BrushRegion(NoTexture)
       /\ calls[i].bound # <<>> /\ calls[j].bound # <<>>
       /\ calls[i].current # NoColorTransform
       /\ calls[i].colorTransform # calls[i].current
       /\ i < k /\ j < k
       /\ calls[k].op = "drawImage" /\ ~Unpacked(calls[k].src)
       /\ Len(geometry) >= 2

(***************************************************************************)
(* The colour specification: a tree, the colorMatrix setter with colour    *)
(* matrices that do not commute, and the concatenated colour matrix query. *)
(***************************************************************************)
MaxColorOps == 4

ColorCount == ops < MaxColorOps

\* The colour matrices handed to the colorMatrix setter of this
\* specification: x -> 2x + 1 and x -> 3x.
ColorValues == {ColorMatrix(2, 1), ColorMatrix(3, 0)}

NextColor ==
  \/ \E f \in Frames, value \in ColorValues : ColorCount /\ SetColorMatrix(f, value)
  \/ \E f \in Frames : ColorCount /\ GetConcatenatedColorMatrix(f)

SpecColor == InitTransform /\ [][NextColor]_vars

RECURSIVE ComposeColorPath(_, _)
\* The colour matrices of path[1..n], each multiplied into the accumulated
\* value of the frames above it, from the root downward.
ComposeColorPath(path, n) ==
  IF n = 0 THEN ColorMatrix_createIdentity
  ELSE ColorMatrix_multiply(ComposeColorPath(path, n - 1), colorMatrix[path[n]])

ColorComposition(f) == ComposeColorPath(RootPath(f), Len(RootPath(f)))

\* C32: getConcatenatedColorMatrix on a frame returns the composition of the
\* current local colour matrices on the path from the root to the frame,
\* whatever colorMatrix setter calls and queries on any frames came before;
\* this includes the query on the root, whose flag no query on it clears.
C32_ConcatenatedColorMatrixIsComposition ==
  ret.op = "getConcatenatedColorMatrix" => ret.value = ColorComposition(ret.frame)

\* A query on a frame below a root whose colour matrices were set to two
\* matrices that do not commute, made while a frame off its path holds a
\* valid cache from an earlier query.
C32_Witness ==
  /\ ret.op = "getConcatenatedColorMatrix"
  /\ parent[ret.frame] # Null
  /\ colorMatrix[ret.frame] \in ColorValues
  /\ colorMatrix[parent[ret.frame]] \in ColorValues \ {colorMatrix[ret.frame]}
  /\ \E g \in Frames :
       /\ g \notin AncestorsIn(parent, ret.frame)
       /\ "InvalidConcatenatedColorMatrix" \notin flags[g]

(***************************************************************************)
(* The inverted matrix specification: a tree, the x, y and matrix setters, *)
(* and the queries of the concatenated matrix and of its inverse.          *)
(***************************************************************************)
MaxInvertedOps == 3

InvertedCount == ops < MaxInvertedOps

NextInverted ==
  \/ \E f \in Frames, value \in XValues : InvertedCount /\ SetX(f, value)
  \/ \E f \in Frames, value \in YValues : InvertedCount /\ SetY(f, value)
  \/ \E f \in Frames, value \in MatrixValues : InvertedCount /\ SetMatrix(f, value)
  \/ \E f \in Frames : InvertedCount /\ GetConcatenatedMatrix(f)
  \/ \E f \in Frames : InvertedCount /\ GetInvertedConcatenatedMatrix(f)

SpecInverted == InitTransform /\ [][NextInverted]_vars

\* C33: a frame whose InvalidInvertedConcatenatedMatrix flag is clear holds
\* in its cache the inverse of the composition of the current local matrices
\* from the root to the frame, and its InvalidConcatenatedMatrix flag is
\* clear too.
C33_InvertedCacheIsInverseOfComposition ==
  \A f \in Frames :
    "InvalidInvertedConcatenatedMatrix" \notin flags[f] =>
      /\ invertedConcatenatedMatrix[f] = inverse(Composition(f))
      /\ "InvalidConcatenatedMatrix" \notin flags[f]

\* The inverse of a frame below the root is cached after the matrix of its
\* parent was set; the parent has a valid concatenated matrix while its
\* cached inverse, computed before the setter call, is flagged invalid.
C33_Witness ==
  \E f \in Frames :
    /\ parent[f] # Null
    /\ "InvalidInvertedConcatenatedMatrix" \notin flags[f]
    /\ matrix[parent[f]] # createIdentity
    /\ "InvalidConcatenatedMatrix" \notin flags[parent[f]]
    /\ "InvalidInvertedConcatenatedMatrix" \in flags[parent[f]]
    /\ invertedConcatenatedMatrix[parent[f]] = inverse(createIdentity)

(***************************************************************************)
(* The render pass specification: a tree whose matrices are set and whose  *)
(* concatenated matrices are queried, and then the traversal of render:    *)
(* stage.visit(visitor, stage.matrix) with a visitor that always answers   *)
(* Continue.                                                               *)
(***************************************************************************)
MaxRenderOps == 3

RenderCount == pc = "idle" /\ ops < MaxRenderOps

\* The visitorFlags of the traversal: none, as render passes, and Clips,
\* which takes the other loop over the children.
RenderVisitorFlags == {{}, {"Clips"}}

NextRender ==
  \/ \E f \in Frames, value \in MatrixValues : RenderCount /\ SetMatrix(f, value)
  \/ \E f \in Frames : RenderCount /\ GetConcatenatedMatrix(f)
  \/ \E visitorFlags \in RenderVisitorFlags : Visit(matrix[0], {}, visitorFlags)
  \/ VisitorAnswer("Continue")

SpecRender == InitTransform /\ [][NextRender]_vars

\* C34: in a traversal from the root with the root's matrix as the base
\* transform, the transform the visitor is handed with a frame, for every
\* entry that is no leave-clip entry, is what getConcatenatedMatrix returns
\* for the frame in the same state.
C34_VisitAgreesWithConcatenatedMatrix ==
  \A i \in 1..Len(visited) :
    "LeaveClip" \notin visited[i].flags =>
      visited[i].transform =
        getConcatenatedMatrix(flags, concatenatedMatrix, visited[i].frame).value

\* The visitor has seen a frame below the root whose concatenated matrix is
\* cached, root and frame having two different matrices that were set, and
\* a frame below the root whose concatenated matrix is not cached.
C34_Witness ==
  \E i \in 1..Len(visited), j \in 1..Len(visited) :
    /\ parent[visited[i].frame] # Null
    /\ "InvalidConcatenatedMatrix" \notin flags[visited[i].frame]
    /\ matrix[0] # createIdentity
    /\ matrix[visited[i].frame] \notin {createIdentity, matrix[0]}
    /\ parent[visited[j].frame] # Null
    /\ "InvalidConcatenatedMatrix" \in flags[visited[j].frame]

(***************************************************************************)
(* The sampler slots of the quads.                                         *)
(***************************************************************************)
\* Whether the quads, recorded by the calls, find the textures of their
\* regions in the slots of bound that their vertices name.
SlotsHold(quads, bound) ==
  \A i \in 1..Len(quads) :
    quads[i].kind # "FillColor" =>
      /\ quads[i].sampler + 1 \in 1..Len(bound)
      /\ bound[quads[i].sampler + 1] = calls[quads[i].id].src.texture

\* C35: at every flush the texture bound to the sampler slot of a textured
\* quad of the batch is the texture of the region the quad was recorded
\* with, and so it is for the quads that wait for their flush: the slot of a
\* quad is not given to another texture before the quad is submitted.
C35_SlotsHoldTheQuadsTextures ==
  /\ \A d \in 1..Len(draws) : SlotsHold(draws[d].quads, draws[d].textures)
  /\ SlotsHold(geometry, textures)

\* A batch of 8 textures was flushed for a ninth one, which now sits in
\* slot 0, where the flushed batch had another texture.
C35_Witness ==
  /\ geometry # <<>>
  /\ geometry[1].kind # "FillColor"
  /\ geometry[1].sampler = 0
  /\ \E d \in 1..Len(draws) :
       /\ Len(draws[d].textures) = MaxSamplers
       /\ draws[d].textures[1] # geometry[1].texture
       /\ \E i \in 1..Len(draws[d].quads) :
            /\ draws[d].quads[i].kind # "FillColor"
            /\ draws[d].quads[i].sampler = MaxSamplers - 1

(***************************************************************************)
(* The mask specification: a tree and the mask setter, which takes any     *)
(* frame of the tree or null.                                              *)
(***************************************************************************)
MaxMaskOps == 3

MaskCount == ops < MaxMaskOps

NextMask ==
  \E f \in Frames, value \in Frames \cup {Null} : MaskCount /\ SetMask(f, value)

SpecMask == InitTransform /\ [][NextMask]_vars

\* The frames whose mask is m.
MaskedBy(m) == {f \in Frames : mask[f] = m}

\* C36: a frame carries IsMask if and only if it is the mask of at least one
\* frame, also when it was made the mask of two frames and one of them has
\* replaced or cleared its mask since.
C36_IsMaskIffMaskOfSomeFrame ==
  \A m \in Frames : "IsMask" \in flags[m] <=> MaskedBy(m) # {}

====
